---- MODULE Spec2Model ----
(***************************************************************************)
(* FaceControl front end (src/unnamed/part_000): the landmark-frame         *)
(* pipeline (cursor mapping, 4-layer smoothing, output dispatch), the wink  *)
(* and drag gesture state machines, calibration, start/stop and the         *)
(* websocket sink, as a state machine.                                      *)
(*                                                                          *)
(* Numbers.  JavaScript doubles are modelled in fixed point:                *)
(*   screen coordinates, velocities : Scale units per pixel                 *)
(*   normalized landmark coordinates, EAR, smoothing factors : thousandths  *)
(*   Kalman error terms : ten-thousandths                                   *)
(*   time : integer milliseconds (Date.now())                               *)
(* Every quotient is rounded to the nearest unit (RDiv).                    *)
(***************************************************************************)
EXTENDS Integers, Sequences, FiniteSets, TLC

\* ------------------------------------------------------------- bounds
\* fixed-point resolution of screen coordinates (units per pixel)
Scale == 10
\* number of landmark results delivered to onFaceResults in one run of a
\* frame family (wink, drag, move)
MaxFrames == 3
\* the same in a session, where every event of the page can happen
MaxSessionFrames == 2
\* the value of Date.now() when the page loads (any value > every cooldown)
Epoch == 1000
\* calibration countdowns pending at once in a session
MaxCountdowns == 1
\* calibration countdowns pending at once when tracking is stopped and
\* started again
MaxPendingCountdowns == 2
\* processFrame chains alive at once in a session
MaxLoops == 1
\* landmark results delivered in a run that fills the raw buffers
\* (more than RAW_BUFFER_SIZE, so that values are evicted)
MaxBufferFrames == 10
\* websockets replaced by connectWebSocket whose handlers can still fire
MaxOrphans == 1
\* inputs of the sensitivity slider in a run
MaxSlides == 1
\* landmark results delivered in a run with winks held over several frames
MaxHeldFrames == 4
\* frame loops alive at a time when tracking is stopped and started again
MaxRestartLoops == 2
\* frames delivered while the screen size and the sensitivity change
MaxTargetFrames == 2

\* ------------------------------------------------- program constants
\* CONFIG.screenWidth, CONFIG.screenHeight (pixels) and state.sensitivity
\* (tenths): set when the page loads, replaced by the screen size the backend
\* reports and by the sensitivity slider
VARIABLES screenWidth, screenHeight, sensitivity,
          \* the /api/health requests not answered yet, the slider inputs so far
          healthPending, slides
configVars == <<screenWidth, screenHeight, sensitivity, healthPending, slides>>
RAW_BUFFER_SIZE == 8
UPDATE_INTERVAL == 8
\* SMOOTH_CONFIG, factors in thousandths
baseSmoothFactor == 60
velocityInfluence == 2
maxSmoothFactor == 200
minSmoothFactor == 20
jitterThreshold == 5
deadZone == 8
outputLerp == 100
bezierFactor == 300
\* fallback interval of the jitter filter (ms)
FALLBACK_INTERVAL == 100
winkCooldown == 600
\* detectWinks thresholds, EAR in thousandths
winkThreshold == 150
openThreshold == 200
\* drag threshold on mouthOpen
MOUTH_THRESHOLD == 15
\* calibrate(): let count = 3
COUNTDOWN_START == 3

\* ------------------------------------------------------------ helpers
Null == <<>>
Some(v) == <<v>>
Val(o) == o[1]

Abs(x) == IF x < 0 THEN -x ELSE x
Min(a, b) == IF a < b THEN a ELSE b
Max(a, b) == IF a > b THEN a ELSE b

\* a / b rounded to the nearest integer, b > 0
RDiv(a, b) == IF a >= 0 THEN (a + b \div 2) \div b ELSE -((b \div 2 - a) \div b)

RECURSIVE SqrtIter(_, _)
SqrtIter(n, x) ==
    LET y == (x + n \div x) \div 2
    IN  IF y >= x THEN x ELSE SqrtIter(n, y)

\* floor(Math.sqrt(n))
ISqrt(n) == IF n <= 0 THEN 0 ELSE SqrtIter(n, n)

\* Math.round of a coordinate in Scale units, in pixels (halves round up)
MathRound(v) == (2 * v + Scale) \div (2 * Scale)

centerX == (screenWidth * Scale) \div 2
centerY == (screenHeight * Scale) \div 2

\* ---------------------------------------------------- filter primitives
KalmanInitial == [estimate |-> Null, errorEstimate |-> 10000, errorMeasure |-> 500, q |-> 50]
KalmanStopped == [estimate |-> Null, errorEstimate |-> 10000, errorMeasure |-> 1000, q |-> 100]
KalmanCentered(c) == [estimate |-> Some(c), errorEstimate |-> 10000, errorMeasure |-> 1000, q |-> 100]

\* kalmanFilter(measurement, state): the state after the call; the value
\* returned is Val(result.estimate).
kalmanFilter(measurement, st) ==
    IF st.estimate = Null
    THEN [st EXCEPT !.estimate = Some(measurement)]
    ELSE LET predicted == st.errorEstimate + st.q
             denom == predicted + st.errorMeasure
             est == Val(st.estimate)
         IN  [st EXCEPT
                !.estimate = Some(est + RDiv(predicted * (measurement - est), denom)),
                !.errorEstimate = RDiv(st.errorMeasure * predicted, denom)]

\* a median that takes the upper middle element of an even-length buffer
getMedianUpperMiddle(arr) ==
    IF Len(arr) = 0 THEN 0
    ELSE SortSeq(arr, LAMBDA a, b : a < b)[Len(arr) \div 2 + 1]

getMedian(arr) ==
    IF Len(arr) = 0 THEN 0
    ELSE LET sorted == SortSeq(arr, LAMBDA a, b : a < b)
             mid == Len(sorted) \div 2
         IN  IF Len(sorted) % 2 = 1
             THEN sorted[mid + 1]
             ELSE RDiv(sorted[mid] + sorted[mid + 1], 2)

\* a buffer that evicts the newest value
addToBufferEvictsNewest(buffer, value, maxSize) ==
    IF Len(buffer) >= maxSize THEN buffer ELSE Append(buffer, value)

addToBuffer(buffer, value, maxSize) ==
    LET pushed == Append(buffer, value)
    IN  IF Len(pushed) > maxSize THEN Tail(pushed) ELSE pushed

\* calculateAdaptiveSmoothFactor(vx, vy), in thousandths.  A component of
\* at least (max - min) / influence pixels per second already forces the
\* clamp to max, so the square root is taken of small numbers only.
calculateAdaptiveSmoothFactor(vx, vy) ==
    LET cap == ((maxSmoothFactor - minSmoothFactor) \div velocityInfluence) * Scale
    IN  IF Abs(vx) >= cap \/ Abs(vy) >= cap
        THEN maxSmoothFactor
        ELSE LET velocity == ISqrt(vx * vx + vy * vy)
                 factor == baseSmoothFactor + RDiv(velocity * velocityInfluence, Scale)
             IN  Max(minSmoothFactor, Min(maxSmoothFactor, factor))

\* an interpolation with a bias of one unit
lerpBiased(start, end, factor) == start + RDiv((end - start) * factor, 10) + 1

\* lerp(start, end, factor), factor in tenths
lerp(start, end, factor) == start + RDiv((end - start) * factor, 10)

\* bezierInterpolate(p0, p1, p2, t), t in thousandths
bezierInterpolate(p0, p1, p2, t) ==
    LET oneMinusT == 1000 - t
        w0 == RDiv(oneMinusT * oneMinusT, 1000)
        w1 == RDiv(2 * oneMinusT * t, 1000)
        w2 == RDiv(t * t, 1000)
    IN  RDiv(w0 * p0 + w1 * p1 + w2 * p2, 1000)

\* ------------------------------------------------------- cursor mapping
\* moveCursor, lines 1436-1491: the raw target of a nose position against
\* the calibration reference (both <<x, y>> in thousandths), per axis.
\* a dead zone without the gradual transition: offsets outside it pass
\* unchanged
DeadZoneHard(d, dx, dy) ==
    IF dx * dx + dy * dy < deadZone * deadZone THEN 0 ELSE d * 100

\* the adjusted offset, in units of 1e-5, of component d of offset (dx, dy)
DeadZoneMultiplied(d, dx, dy) ==
    LET d2 == dx * dx + dy * dy
    IN  IF d2 < deadZone * deadZone
        THEN 0
        ELSE LET \* the distance in units of 1e-5 for offsets up to 0.1, of
                 \* 1e-4 beyond (the products stay below 2^31)
                 unit == IF d2 <= 10000 THEN 100 ELSE 10
                 distance == ISqrt(d2 * unit * unit)
             IN  RDiv(d * Max(0, distance - unit * deadZone) * 100, distance)

\* -adjusted * baseScale * sensitivityMultiplier, in Scale units
MoveOf(adjusted) ==
    LET baseScale == Min(screenWidth, screenHeight)
        scaled == RDiv(adjusted * baseScale, 100)
        sens == RDiv(scaled * sensitivity * 25, 100)
    IN  RDiv(sens * Scale, 1000)

\* variant: the target is not clamped to the screen
rawTargetXUnclamped(nose, cal) ==
    LET dx == nose[1] - cal[1]
        dy == nose[2] - cal[2]
        moveX == -MoveOf(DeadZoneMultiplied(dx, dx, dy))
    IN  centerX + RDiv(moveX * screenWidth * 3, screenHeight * 4)

rawTargetX(nose, cal) ==
    LET dx == nose[1] - cal[1]
        dy == nose[2] - cal[2]
        moveX == -MoveOf(DeadZoneMultiplied(dx, dx, dy))
        \* aspectCompensation = (screenWidth / screenHeight) / (640 / 480)
        finalMoveX == RDiv(moveX * screenWidth * 3, screenHeight * 4)
    IN  Max(0, Min((screenWidth - 1) * Scale, centerX + finalMoveX))

rawTargetY(nose, cal) ==
    LET dx == nose[1] - cal[1]
        dy == nose[2] - cal[2]
        moveY == MoveOf(DeadZoneMultiplied(dy, dx, dy))
    IN  Max(0, Min((screenHeight - 1) * Scale, centerY + moveY))

\* ---------------------------------------------------------------- state
VARIABLES
    \* const state = { ... }
    isRunning, isCalibrated, calibrationNose, currentNose,
    lastLeftClick, lastRightClick, clickCount, isDragging,
    leftEyeOpen, rightEyeOpen, speaking, trackingPaused, backendConnected,
    \* module-level smoothing state
    rawBufferX, rawBufferY, kalmanX, kalmanY, velocityX, velocityY,
    lastTargetX, lastTargetY, lastTargetTime,
    smoothX, smoothY, outputX, outputY,
    lastSentX, lastSentY, lastMouseUpdate,
    \* the websocket, the buttons, the timers and the frame loops
    wsState, ui, calibrateBtnDisabled, countdowns, loopsAtRaf, loopsInSend,
    \* the reconnect timer, and the sockets that connectWebSocket replaced
    \* before they closed (still connecting / open)
    wsReconnectTimer, orphansConnecting, orphansOpen,
    \* imageSearchState.isSearching; the image_search requests the backend has
    \* not answered yet, and its replies on the way to websocket.onmessage
    isSearching, searchRequests, searchReplies,
    \* environment: the clock, the inputs offered, the frames delivered
    now, scenario, frames,
    \* the results the last step delivered to onFaceResults (Null: none)
    input,
    \* what the last step did: its name, the commands it issued through
    \* sendMouse/sendClick/sendDragStart/sendDragEnd, those that reached
    \* websocket.send
    lastOp, issued, sent,
    \* history, read by the properties only
    winkRun, prevMouthOpen, lastDragCmd, calibOrigin, faceSeen, lastPipelineSend,
    sendGap, lastMoveTo, clicks, heldAtReference, pushed, lastDragSent

gestureVars == <<lastLeftClick, lastRightClick, clickCount, isDragging,
                 leftEyeOpen, rightEyeOpen>>
bufferVars == <<rawBufferX, rawBufferY, kalmanX, kalmanY, velocityX, velocityY,
                lastTargetX, lastTargetY, lastTargetTime,
                smoothX, smoothY, outputX, outputY>>
dispatchVars == <<lastSentX, lastSentY, lastMouseUpdate>>
filterVars == <<bufferVars, dispatchVars>>
calibVars == <<isCalibrated, calibrationNose>>
speechVars == <<speaking, trackingPaused>>
socketVars == <<backendConnected, wsState, wsReconnectTimer, orphansConnecting,
                orphansOpen>>
uiVars == <<ui, calibrateBtnDisabled>>
imageVars == <<isSearching, searchRequests, searchReplies>>
loopVars == <<loopsAtRaf, loopsInSend>>
historyVars == <<winkRun, prevMouthOpen, lastDragCmd, calibOrigin, faceSeen,
                 lastPipelineSend, sendGap, lastMoveTo, clicks, heldAtReference,
                 pushed, lastDragSent>>

\* ---- facecontrol-backend/server.js
VARIABLES
    \* let currentPos, screenSize, pendingMove, moveTimer: the position in
    \* pixels, <<width, height>>, the queued position (Null: none) in units of
    \* 1 / Scale pixel, whether the batch interval timer is set
    currentPos, screenSize, pendingMove, moveTimer,
    \* environment: the messages received so far
    received,
    \* what the last step did: the calls it made to robot
    robotCalls,
    \* what the last message did: its action and the handlers the switch
    \* called for it, in order; the setTimeout callbacks of 'doubleclick'
    \* that have not run yet
    dispatched, clickTimers,
    \* history, read by the properties only: the position queued last; the sum
    \* of the deltas of the 'move' messages; whether only 'move' messages
    \* arrived, each with the start position plus the deltas so far on screen;
    \* the positions queued since the last tick that executed one, and whether
    \* a tick has executed that batch
    lastQueued, moveSum, movesOnScreen, batch

serverVars == <<currentPos, screenSize, pendingMove, moveTimer, received, robotCalls,
                dispatched, clickTimers, lastQueued, moveSum, movesOnScreen, batch>>

pageVars == <<isRunning, calibVars, currentNose, gestureVars, speechVars, socketVars,
              filterVars, uiVars, countdowns, loopVars, now, frames, historyVars,
              configVars, imageVars>>

vars == <<pageVars, scenario, input, lastOp, issued, sent, serverVars>>

\* ------------------------------------------------------- inputs offered
\* results.multiFaceLandmarks reduced to what onFaceResults reads of it:
\* landmarks[4] (thousandths), <<leftEAR, rightEAR>> (thousandths) and the
\* mouth openness
Face(nose, ears, mouthOpen) ==
    [face |-> TRUE, nose |-> nose, ears |-> ears, mouthOpen |-> mouthOpen]

NoFace == [face |-> FALSE, nose |-> <<0, 0>>, ears |-> <<0, 0>>, mouthOpen |-> 0]

Neutral == Face(<<500, 500>>, <<250, 250>>, 10)

\* scenario names the family of frames the landmark source delivers
FrameInputs ==
    CASE scenario = "wink" ->
           {NoFace} \cup
           {Face(<<500, 500>>, e, 10) :
              e \in {<<250, 250>>, <<100, 250>>, <<250, 100>>, <<175, 250>>, <<100, 100>>}}
      [] scenario = "drag" ->
           {NoFace} \cup {Face(<<500, 500>>, <<250, 250>>, m) : m \in {10, 15, 20}}
      [] scenario = "steady" ->
           {NoFace, Neutral}
      [] scenario = "held" ->
           \* eyes open, a left wink, a right wink
           {Face(<<500, 500>>, e, 10) : e \in {<<250, 250>>, <<100, 250>>, <<250, 100>>}}
      [] scenario = "restart" ->
           {NoFace, Neutral}
      [] scenario = "countdowns" ->
           {NoFace, Neutral}
      [] scenario = "axes" ->
           {Neutral, Face(<<480, 510>>, <<250, 250>>, 10)}
      [] scenario = "speech" ->
           {Neutral, Face(<<480, 510>>, <<100, 250>>, 20)}
      [] scenario = "calibrate" ->
           {NoFace, Neutral, Face(<<480, 510>>, <<250, 250>>, 10)}
      [] scenario = "deadzone" ->
           \* offsets from the default nose inside the dead zone, exactly on
           \* its boundary and outside it
           {Face(<<500 + o[1], 500 + o[2]>>, <<250, 250>>, 10) :
              o \in {<<0, 0>>, <<7, 0>>, <<8, 0>>, <<0, -8>>, <<9, 0>>, <<-6, 6>>, <<30, -40>>}}
      [] scenario = "buffer" ->
           \* a head that wanders: the nose position of a frame is a fixed
           \* function of its number, not monotone on either axis
           {NoFace, Face(<<500 - 10 * ((3 * frames) % 7), 500 + 5 * ((5 * frames) % 7)>>,
                         <<250, 250>>, 10)}
      [] scenario = "target" ->
           \* a head that turns far enough to leave the screen on either side
           {Face(n, <<250, 250>>, 10) :
              n \in {<<500, 500>>, <<100, 100>>, <<900, 900>>}}
      [] scenario = "sink" ->
           {Neutral, Face(<<480, 510>>, <<100, 250>>, 20)}
      [] scenario = "edge" ->
           \* a head that turns quickly to one side and stays there
           {Neutral, Face(<<400, 500>>, <<250, 250>>, 10),
            Face(<<500, 600>>, <<250, 250>>, 10)}
      [] scenario = "move" ->
           {NoFace} \cup
           {Face(n, <<250, 250>>, 10) : n \in {<<500, 500>>, <<504, 503>>, <<480, 510>>}}
      [] OTHER ->
           {NoFace, Neutral, Face(<<480, 510>>, <<100, 250>>, 20),
            Face(<<500, 500>>, <<250, 100>>, 10)}

\* A frame family explores its frames in depth, with one countdown and one
\* frame loop at a time; a session explores the events of the page.
FrameLimit ==
    CASE scenario = "session" -> MaxSessionFrames
      [] scenario = "buffer" -> MaxBufferFrames
      [] scenario = "target" -> MaxTargetFrames
      [] scenario = "held" -> MaxHeldFrames
      [] OTHER -> MaxFrames
CountdownLimit ==
    CASE scenario = "session" -> MaxCountdowns
      [] scenario = "countdowns" -> MaxPendingCountdowns
      [] OTHER -> 1
LoopLimit ==
    CASE scenario = "session" -> MaxLoops
      [] scenario = "restart" -> MaxRestartLoops
      [] OTHER -> 1

\* milliseconds between a frame and the event before it
TimeSteps ==
    CASE scenario = "wink" -> {0, 300, 601}
      [] scenario = "drag" -> {0, 50}
      [] scenario = "move" -> {0, 8, 101}
      [] scenario = "steady" -> {0, 33, 60}
      [] scenario = "deadzone" -> {33}
      [] scenario = "buffer" -> {33}
      [] scenario = "target" -> {33}
      [] scenario = "restart" -> {33}
      [] scenario = "held" -> {300, 601}
      [] scenario = "countdowns" -> {33}
      [] scenario = "calibrate" -> {33}
      [] scenario = "axes" -> {101, 700}
      [] scenario = "edge" -> {16, 33}
      [] scenario = "sink" -> {700}
      [] OTHER -> {700}

\* --------------------------------------------------------------- commands
MoveTo(x, y) == [action |-> "moveTo", x |-> x, y |-> y, button |-> "none"]
Click(b) == [action |-> "click", x |-> 0, y |-> 0, button |-> b]
MouseDown == [action |-> "mousedown", x |-> 0, y |-> 0, button |-> "none"]
MouseUp == [action |-> "mouseup", x |-> 0, y |-> 0, button |-> "none"]

Has(cmds, a) == \E i \in 1..Len(cmds) : cmds[i].action = a
HasCmd(cmds, c) == \E i \in 1..Len(cmds) : cmds[i] = c

\* a guard that trusts the connected flag alone
SinkFlagOnly == backendConnected

\* sendMouse / sendClick / sendDragStart / sendDragEnd: the guard they share
SinkAvailable == backendConnected /\ wsState = "OPEN"

\* what websocket.send receives of the commands a handler issues
Delivered(cmds) == IF SinkAvailable THEN cmds ELSE <<>>

\* ------------------------------------------------------------------ Init
\* the wink clicks of one side: the time of the last one, and the time
\* between the last two
NoClicks == [at |-> Null, gap |-> Null]
NoRun == [phase |-> 0, ready |-> FALSE, first |-> 0, later |-> 0, open |-> TRUE]

\* server.js, lines 60-65: the state once the server has started on a screen
\* of the given size
StartPos == [x |-> Some(960), y |-> Some(540)]

\* no message handled
NoDispatch == [action |-> "", handlers |-> <<>>]

ServerStarted(size) ==
    /\ currentPos = StartPos /\ screenSize = size
    /\ pendingMove = Null /\ moveTimer = FALSE
    /\ received = 0 /\ robotCalls = <<>>
    /\ dispatched = NoDispatch /\ clickTimers = 0
    /\ lastQueued = Null /\ moveSum = <<0, 0>> /\ movesOnScreen = TRUE
    /\ batch = [queued |-> 0, executed |-> FALSE]

\* the state once the page has loaded
PageLoaded ==
    /\ isRunning = FALSE /\ isCalibrated = FALSE /\ calibrationNose = Null
    /\ currentNose = <<500, 500>>
    /\ lastLeftClick = 0 /\ lastRightClick = 0 /\ clickCount = 0
    /\ isDragging = FALSE /\ leftEyeOpen = TRUE /\ rightEyeOpen = TRUE
    /\ speaking = FALSE /\ trackingPaused = FALSE /\ backendConnected = FALSE
    /\ rawBufferX = <<>> /\ rawBufferY = <<>>
    /\ kalmanX = KalmanInitial /\ kalmanY = KalmanInitial
    /\ velocityX = 0 /\ velocityY = 0
    /\ lastTargetX = Null /\ lastTargetY = Null /\ lastTargetTime = 0
    /\ smoothX = Null /\ smoothY = Null /\ outputX = Null /\ outputY = Null
    /\ lastSentX = 0 /\ lastSentY = 0 /\ lastMouseUpdate = 0
    /\ wsState = "NONE" /\ ui = "idle" /\ calibrateBtnDisabled = TRUE
    /\ wsReconnectTimer = FALSE /\ orphansConnecting = 0 /\ orphansOpen = 0
    /\ countdowns = <<>> /\ loopsAtRaf = 0 /\ loopsInSend = 0
    /\ isSearching = FALSE /\ searchRequests = 0 /\ searchReplies = <<>>
    /\ now = Epoch /\ frames = 0
    /\ input = Null /\ lastOp = "init" /\ issued = <<>> /\ sent = <<>>
    /\ winkRun = [left |-> NoRun, right |-> NoRun]
    /\ prevMouthOpen = FALSE /\ lastDragCmd = "none" /\ lastDragSent = "none"
    /\ calibOrigin = "none"
    /\ faceSeen = FALSE /\ lastPipelineSend = Null /\ sendGap = Null
    /\ lastMoveTo = Null
    /\ clicks = [left |-> NoClicks, right |-> NoClicks]
    /\ heldAtReference = FALSE /\ pushed = <<>>
    /\ screenWidth = 1920 /\ screenHeight = 1080 /\ sensitivity = 15
    \* DOMContentLoaded has called checkBackend() and getScreenSize()
    /\ healthPending = 2 /\ slides = 0

\* the page loaded, the backend started on the screen of the mock robot
Loaded == PageLoaded /\ ServerStarted(<<1920, 1080>>)

\* ------------------------------------------------------------ detectWinks
\* a left wink without the cooldown
LeftWinkFiresAnyTime(leftEAR, rightEAR, t) ==
    leftEAR < winkThreshold /\ rightEAR > openThreshold /\ leftEyeOpen

\* a left wink that fires whenever the eye is closed, open before or not
LeftWinkFiresOnLevel(leftEAR, rightEAR, t) ==
    /\ leftEAR < winkThreshold /\ rightEAR > openThreshold
    /\ t - lastLeftClick > winkCooldown

\* lines 1324-1333: the left click fires
LeftWinkFires(leftEAR, rightEAR, t) ==
    /\ leftEAR < winkThreshold /\ rightEAR > openThreshold /\ leftEyeOpen
    /\ t - lastLeftClick > winkCooldown

\* lines 1335-1344: the right click fires
RightWinkFires(leftEAR, rightEAR, t) ==
    /\ rightEAR < winkThreshold /\ leftEAR > openThreshold /\ rightEyeOpen
    /\ t - lastRightClick > winkCooldown

\* lines 1349-1351: state.leftEyeOpen = leftOpen (and right)
EyeOpenAfter(ear) == ear > openThreshold

\* a detector with the buttons exchanged
WinkCmdsExchanged(leftEAR, rightEAR, t) ==
    (IF LeftWinkFires(leftEAR, rightEAR, t) THEN <<Click("right")>> ELSE <<>>) \o
    (IF RightWinkFires(leftEAR, rightEAR, t) THEN <<Click("left")>> ELSE <<>>)

WinkCmds(leftEAR, rightEAR, t) ==
    (IF LeftWinkFires(leftEAR, rightEAR, t) THEN <<Click("left")>> ELSE <<>>) \o
    (IF RightWinkFires(leftEAR, rightEAR, t) THEN <<Click("right")>> ELSE <<>>)

\* ------------------------------------------------------------- moveCursor
\* the module-level smoothing state, as one value
FilterState ==
    [rawBufferX |-> rawBufferX, rawBufferY |-> rawBufferY,
     kalmanX |-> kalmanX, kalmanY |-> kalmanY,
     velocityX |-> velocityX, velocityY |-> velocityY,
     lastTargetX |-> lastTargetX, lastTargetY |-> lastTargetY,
     lastTargetTime |-> lastTargetTime,
     smoothX |-> smoothX, smoothY |-> smoothY,
     outputX |-> outputX, outputY |-> outputY]

\* lines 1493-1544: the four smoothing layers applied to the filter state st
\* and one raw target at time t (const now = Date.now(), line 1434)
Pipeline(st, rawX, rawY, t) ==
    LET bufX == addToBuffer(st.rawBufferX, rawX, RAW_BUFFER_SIZE)
        bufY == addToBuffer(st.rawBufferY, rawY, RAW_BUFFER_SIZE)
        kX == kalmanFilter(getMedian(bufX), st.kalmanX)
        kY == kalmanFilter(getMedian(bufY), st.kalmanY)
        kalmanedX == Val(kX.estimate)
        kalmanedY == Val(kY.estimate)
        dt == t - st.lastTargetTime
        moving == st.lastTargetX # Null /\ st.lastTargetTime > 0 /\ dt > 0
        vX == IF moving
              THEN lerp(st.velocityX, RDiv((kalmanedX - Val(st.lastTargetX)) * 1000, dt), 3)
              ELSE st.velocityX
        vY == IF moving
              THEN lerp(st.velocityY, RDiv((kalmanedY - Val(st.lastTargetY)) * 1000, dt), 3)
              ELSE st.velocityY
        adaptiveFactor == calculateAdaptiveSmoothFactor(vX, vY)
        sX0 == IF st.smoothX = Null THEN kalmanedX ELSE Val(st.smoothX)
        sY0 == IF st.smoothX = Null THEN kalmanedY ELSE Val(st.smoothY)
        oX0 == IF st.smoothX = Null THEN Some(kalmanedX) ELSE st.outputX
        oY0 == IF st.smoothX = Null THEN Some(kalmanedY) ELSE st.outputY
        sX == sX0 + RDiv((kalmanedX - sX0) * adaptiveFactor, 1000)
        sY == sY0 + RDiv((kalmanedY - sY0) * adaptiveFactor, 1000)
        oX1 == IF oX0 = Null THEN sX ELSE Val(oX0)
        oY1 == IF oX0 = Null THEN sY ELSE Val(oY0)
        controlX == RDiv(oX1 + sX, 2) + RDiv(vX * bezierFactor, 1000)
        controlY == RDiv(oY1 + sY, 2) + RDiv(vY * bezierFactor, 1000)
    IN  [rawBufferX |-> bufX, rawBufferY |-> bufY, kalmanX |-> kX, kalmanY |-> kY,
         velocityX |-> vX, velocityY |-> vY, smoothX |-> sX, smoothY |-> sY,
         outputX |-> bezierInterpolate(oX1, controlX, sX, outputLerp),
         outputY |-> bezierInterpolate(oY1, controlY, sY, outputLerp)]

\* variant: the raw targets of the two axes exchanged
SmoothedAxesExchanged(nose, t) ==
    Pipeline(FilterState, rawTargetY(nose, calibrationNose),
             rawTargetX(nose, calibrationNose), t)

\* lines 1437-1544: one nose position through the target computation and
\* the layers
Smoothed(nose, t) ==
    Pipeline(FilterState, rawTargetX(nose, calibrationNose),
             rawTargetY(nose, calibrationNose), t)

\* a throttle that lets every frame through
ThrottleOff(t) == t - lastMouseUpdate >= 0

\* line 1556: the throttle
ThrottlePassed(t) == t - lastMouseUpdate >= UPDATE_INTERVAL

\* a jitter filter that lets every movement through
AnyMovement(ox, oy) == TRUE

\* lines 1547-1550, 1558: movementDistance >= jitterThreshold
AboveJitter(ox, oy) ==
    LET dx == Abs(ox - lastSentX)
        dy == Abs(oy - lastSentY)
        limit == jitterThreshold * Scale
    IN  dx >= limit \/ dy >= limit \/ dx * dx + dy * dy >= limit * limit

\* line 1558: enough time has passed
FallbackElapsed(t) == t - lastMouseUpdate > FALLBACK_INTERVAL

\* lines 1556-1562: sendMouse is called
ShouldSend(ox, oy, t) == ThrottlePassed(t) /\ (AboveJitter(ox, oy) \/ FallbackElapsed(t))

\* a drag start that is level-triggered only
DragStartsOnLevel(mouthOpen) == mouthOpen > MOUTH_THRESHOLD

\* lines 1578-1594: the drag state machine
DragStarts(mouthOpen) == mouthOpen > MOUTH_THRESHOLD /\ ~isDragging
DragEnds(mouthOpen) == ~(mouthOpen > MOUTH_THRESHOLD) /\ isDragging

DraggingAfter(mouthOpen) ==
    IF DragStarts(mouthOpen) THEN TRUE
    ELSE IF DragEnds(mouthOpen) THEN FALSE
    ELSE isDragging

\* the commands moveCursor issues at time t, p being Smoothed(nose, t)
MoveCmds(p, mouthOpen, t) ==
    (IF ShouldSend(p.outputX, p.outputY, t)
     THEN <<MoveTo(MathRound(p.outputX) * Scale, MathRound(p.outputY) * Scale)>>
     ELSE <<>>) \o
    (IF DragStarts(mouthOpen) THEN <<MouseDown>> ELSE <<>>) \o
    (IF DragEnds(mouthOpen) THEN <<MouseUp>> ELSE <<>>)

\* moveCursor(nose, mouthOpen) at time t, p being Smoothed(nose, t): every assignment
\* but the one to clickCount
moveCursor(p, mouthOpen, t) ==
    LET send == ShouldSend(p.outputX, p.outputY, t)
    IN  /\ rawBufferX' = p.rawBufferX /\ rawBufferY' = p.rawBufferY
        /\ kalmanX' = p.kalmanX /\ kalmanY' = p.kalmanY
        /\ velocityX' = p.velocityX /\ velocityY' = p.velocityY
        /\ lastTargetX' = p.kalmanX.estimate /\ lastTargetY' = p.kalmanY.estimate
        /\ lastTargetTime' = t
        /\ smoothX' = Some(p.smoothX) /\ smoothY' = Some(p.smoothY)
        /\ outputX' = Some(p.outputX) /\ outputY' = Some(p.outputY)
        /\ lastSentX' = (IF send THEN MathRound(p.outputX) * Scale ELSE lastSentX)
        /\ lastSentY' = (IF send THEN MathRound(p.outputY) * Scale ELSE lastSentY)
        /\ lastMouseUpdate' = (IF ThrottlePassed(t) THEN t ELSE lastMouseUpdate)
        /\ isDragging' = DraggingAfter(mouthOpen)

\* ----------------------------------------------------------- history
\* One eye's winks, as the frames show them.  open is the eye's state as the
\* frames define it: closed after a frame with EAR < 0.15, open after a frame
\* with EAR > 0.2, unchanged by a frame in between.  phase is 1 on the frame
\* that closes an open eye while the other eye is open, 2 on the following
\* frames of the same wink, 3 in a wink that did not start from an open eye,
\* 0 otherwise.  ready: more than winkCooldown had passed since that side's
\* last click on the first frame.  first / later: clicks of that side on
\* the first / the later frames of the wink.
RunAfter(run, ear, other, ready, clicked) ==
    LET inRun == ear < winkThreshold /\ other > openThreshold
        openAfter == IF ear < winkThreshold THEN FALSE
                     ELSE IF ear > openThreshold THEN TRUE
                     ELSE run.open
    IN  IF ~inRun THEN [NoRun EXCEPT !.open = openAfter]
        ELSE IF run.phase = 0
        THEN IF run.open
             THEN [phase |-> 1, ready |-> ready, first |-> clicked, later |-> 0,
                   open |-> FALSE]
             ELSE [NoRun EXCEPT !.phase = 3, !.open = FALSE]
        ELSE IF run.phase = 3 THEN run
        ELSE [run EXCEPT !.phase = 2, !.later = Min(1, run.later + clicked)]

Bit(b) == IF b THEN 1 ELSE 0

ClicksAfter(c, clicked, t) ==
    IF ~clicked THEN c
    ELSE [at |-> Some(t), gap |-> IF c.at = Null THEN c.gap ELSE Some(t - Val(c.at))]

\* -------------------------------------------------------- onFaceResults
\* line 1365
\* variant: frames are processed during speech
PausedNever == FALSE

\* line 1365
Paused == speaking \/ trackingPaused

\* variant: a completed drag is not counted
ClickCountWinksOnly(leftFires, rightFires, dragEnds) ==
    clickCount + Bit(leftFires) + Bit(rightFires)

\* state.clickCount++ on a left click, on a right click and on a drag end
ClickCountAfter(leftFires, rightFires, dragEnds) ==
    clickCount + Bit(leftFires) + Bit(rightFires) + Bit(dragEnds)
\* a face check that takes every result for a face
AnyResults(results) == TRUE

\* line 1371
HasFace(results) == results.face
\* line 1428
CursorActive == isCalibrated /\ calibrationNose # Null

\* a cursor path whose throttle bookkeeping runs before the gate
CursorPathUngatedThrottle(p, mouthOpen, t) ==
    IF CursorActive
    THEN moveCursor(p, mouthOpen, t)
    ELSE /\ lastMouseUpdate' = (IF ThrottlePassed(t) THEN t ELSE lastMouseUpdate)
         /\ UNCHANGED <<bufferVars, lastSentX, lastSentY, isDragging>>

\* a cursor path whose drag state machine runs without calibration
CursorPathDragsUncalibrated(p, mouthOpen, t) ==
    IF CursorActive
    THEN moveCursor(p, mouthOpen, t)
    ELSE /\ isDragging' = DraggingAfter(mouthOpen)
         /\ UNCHANGED filterVars

\* lines 1427-1430: moveCursor runs only when calibrated
CursorPath(p, mouthOpen, t) ==
    IF CursorActive
    THEN moveCursor(p, mouthOpen, t)
    ELSE UNCHANGED <<filterVars, isDragging>>

Step(op, cmds) ==
    /\ lastOp' = op
    /\ issued' = cmds
    /\ sent' = Delivered(cmds)
    /\ UNCHANGED <<configVars, serverVars, imageVars>>

\* a step of a handler that is handed no landmark results
Event(op, cmds) == Step(op, cmds) /\ input' = Null

\* onFaceResults(results), run at time t
onFaceResults(results, t) ==
    IF Paused \/ ~HasFace(results)
    THEN /\ Step("frame", <<>>)
         /\ UNCHANGED <<currentNose, gestureVars, filterVars, historyVars>>
    ELSE LET l == results.ears[1]
             r == results.ears[2]
             m == results.mouthOpen
             leftFires == LeftWinkFires(l, r, t)
             rightFires == RightWinkFires(l, r, t)
             p == Smoothed(results.nose, t)
             cmds == WinkCmds(l, r, t) \o (IF CursorActive THEN MoveCmds(p, m, t) ELSE <<>>)
         IN  /\ currentNose' = results.nose
             /\ lastLeftClick' = (IF leftFires THEN t ELSE lastLeftClick)
             /\ lastRightClick' = (IF rightFires THEN t ELSE lastRightClick)
             /\ leftEyeOpen' = EyeOpenAfter(l)
             /\ rightEyeOpen' = EyeOpenAfter(r)
             /\ clickCount' = ClickCountAfter(leftFires, rightFires,
                                               CursorActive /\ DragEnds(m))
             /\ CursorPath(p, m, t)
             /\ Step("frame", cmds)
             \* history
             /\ winkRun' =
                  [left |-> RunAfter(winkRun.left, l, r,
                                     t - lastLeftClick > winkCooldown,
                                     Bit(HasCmd(cmds, Click("left")))),
                   right |-> RunAfter(winkRun.right, r, l,
                                      t - lastRightClick > winkCooldown,
                                      Bit(HasCmd(cmds, Click("right"))))]
             /\ prevMouthOpen' = (IF CursorActive THEN m > MOUTH_THRESHOLD ELSE prevMouthOpen)
             /\ lastDragCmd' = (IF Has(cmds, "mousedown") THEN "down"
                                ELSE IF Has(cmds, "mouseup") THEN "up"
                                ELSE lastDragCmd)
             \* the drag command that reached websocket.send last
             /\ lastDragSent' = (IF Has(Delivered(cmds), "mousedown") THEN "down"
                                 ELSE IF Has(Delivered(cmds), "mouseup") THEN "up"
                                 ELSE lastDragSent)
             /\ faceSeen' = TRUE
             /\ lastPipelineSend' = (IF Has(cmds, "moveTo") THEN Some(t) ELSE lastPipelineSend)
             /\ sendGap' = (IF Has(cmds, "moveTo") /\ lastPipelineSend # Null
                            THEN Some(t - Val(lastPipelineSend))
                            ELSE sendGap)
             /\ lastMoveTo' = (IF Has(cmds, "moveTo") THEN Some(t) ELSE lastMoveTo)
             /\ clicks' = [left |-> ClicksAfter(clicks.left, HasCmd(cmds, Click("left")), t),
                           right |-> ClicksAfter(clicks.right, HasCmd(cmds, Click("right")), t)]
             \* every pipeline frame since the calibration had the nose at the
             \* reference
             /\ heldAtReference' = (IF CursorActive
                                    THEN heldAtReference /\ results.nose = calibrationNose
                                    ELSE heldAtReference)
             \* the raw targets pushed since the buffers were last reset
             /\ pushed' = (IF CursorActive
                           THEN Append(pushed, <<rawTargetX(results.nose, calibrationNose),
                                                 rawTargetY(results.nose, calibrationNose)>>)
                           ELSE pushed)
             /\ UNCHANGED calibOrigin

\* ------------------------------------------------------------- actions
\* faceMesh.send resolves: the results callback runs, then processFrame
\* asks for the next animation frame (lines 713-716)
FaceResults ==
    /\ loopsInSend > 0
    /\ frames < FrameLimit
    /\ \E d \in TimeSteps, results \in FrameInputs :
         /\ now' = now + d
         /\ input' = Some(results)
         /\ onFaceResults(results, now + d)
    /\ frames' = frames + 1
    /\ loopsInSend' = loopsInSend - 1
    /\ loopsAtRaf' = loopsAtRaf + 1
    /\ UNCHANGED <<isRunning, calibVars, speechVars, socketVars, uiVars, countdowns,
                   scenario>>

\* processFrame, lines 709-714: the animation frame callback
ProcessFrame ==
    /\ loopsAtRaf > 0
    /\ loopsAtRaf' = loopsAtRaf - 1
    /\ loopsInSend' = (IF isRunning THEN loopsInSend + 1 ELSE loopsInSend)
    /\ Event("other", <<>>)
    /\ UNCHANGED <<isRunning, calibVars, currentNose, gestureVars, speechVars,
                   socketVars, filterVars, uiVars, countdowns, now, scenario, frames,
                   historyVars>>

\* startTracking up to its first await (line 629)
StartClick ==
    /\ ui = "idle"
    /\ ui' = "starting"
    /\ Event("other", <<>>)
    /\ UNCHANGED <<isRunning, calibVars, currentNose, gestureVars, speechVars,
                   socketVars, filterVars, calibrateBtnDisabled, countdowns, loopVars,
                   now, scenario, frames, historyVars>>

\* startTracking after the camera is granted (lines 650-665)
StartGranted ==
    /\ ui = "starting"
    /\ loopsAtRaf + loopsInSend < LoopLimit
    /\ ui' = "running"
    /\ calibrateBtnDisabled' = FALSE
    /\ isRunning' = TRUE
    /\ loopsInSend' = loopsInSend + 1
    /\ Event("other", <<>>)
    /\ UNCHANGED <<calibVars, currentNose, gestureVars, speechVars, socketVars,
                   filterVars, countdowns, loopsAtRaf, now, scenario, frames,
                   historyVars>>

\* startTracking when getUserMedia rejects (lines 667-671)
StartDenied ==
    /\ ui = "starting"
    /\ ui' = "idle"
    /\ Event("other", <<>>)
    /\ UNCHANGED <<isRunning, calibVars, currentNose, gestureVars, speechVars,
                   socketVars, filterVars, calibrateBtnDisabled, countdowns, loopVars,
                   now, scenario, frames, historyVars>>

\* lines 680-692: "Reset all smoothing variables"
StopResetsFilters ==
    /\ smoothX' = Null /\ smoothY' = Null /\ outputX' = Null /\ outputY' = Null
    /\ rawBufferX' = <<>> /\ rawBufferY' = <<>>
    /\ velocityX' = 0 /\ velocityY' = 0
    /\ lastTargetX' = Null /\ lastTargetY' = Null /\ lastTargetTime' = 0
    /\ kalmanX' = KalmanStopped /\ kalmanY' = KalmanStopped

stopTracking ==
    /\ ui = "running"
    /\ isRunning' = FALSE
    /\ isCalibrated' = FALSE
    /\ calibrationNose' = Null
    /\ StopResetsFilters
    /\ ui' = "idle"
    /\ calibrateBtnDisabled' = TRUE
    /\ Event("stop", <<>>)
    \* history: the countdowns still pending were started before this stop
    /\ countdowns' = [i \in 1..Len(countdowns) |-> [countdowns[i] EXCEPT !.stale = TRUE]]
    /\ calibOrigin' = "none"
    /\ heldAtReference' = FALSE
    /\ pushed' = <<>>
    /\ UNCHANGED <<currentNose, gestureVars, speechVars, socketVars, dispatchVars,
                   loopVars, now, scenario, frames, winkRun, prevMouthOpen,
                   lastDragCmd, faceSeen, lastPipelineSend, sendGap, lastMoveTo,
                   clicks, lastDragSent>>

\* calibrate(), lines 1639-1644: the countdown starts
calibrate ==
    /\ ~calibrateBtnDisabled
    /\ Len(countdowns) < CountdownLimit
    /\ calibrateBtnDisabled' = TRUE
    /\ countdowns' = Append(countdowns,
                            [count |-> COUNTDOWN_START, stale |-> FALSE, ticks |-> 0])
    /\ Event("other", <<>>)
    /\ UNCHANGED <<isRunning, calibVars, currentNose, gestureVars, speechVars,
                   socketVars, filterVars, ui, loopVars, now, scenario, frames,
                   historyVars>>

\* a completion that re-seeds the filters but keeps the raw buffers
CalibrationKeepsBuffers ==
    /\ calibrationNose' = currentNose
    /\ isCalibrated' = TRUE
    /\ smoothX' = Some(centerX) /\ smoothY' = Some(centerY)
    /\ outputX' = Some(centerX) /\ outputY' = Some(centerY)
    /\ lastSentX' = centerX /\ lastSentY' = centerY
    /\ velocityX' = 0 /\ velocityY' = 0
    /\ lastTargetX' = Some(centerX) /\ lastTargetY' = Some(centerY)
    /\ lastTargetTime' = now
    /\ kalmanX' = KalmanCentered(centerX) /\ kalmanY' = KalmanCentered(centerY)
    /\ calibrateBtnDisabled' = FALSE
    /\ Event("calibrated", <<MoveTo(centerX, centerY)>>)
    /\ UNCHANGED <<lastMouseUpdate, rawBufferX, rawBufferY>>

\* a completion that re-seeds the Kalman estimates but keeps their error
\* estimates
CalibrationKeepsKalmanError ==
    /\ calibrationNose' = currentNose
    /\ isCalibrated' = TRUE
    /\ smoothX' = Some(centerX) /\ smoothY' = Some(centerY)
    /\ outputX' = Some(centerX) /\ outputY' = Some(centerY)
    /\ lastSentX' = centerX /\ lastSentY' = centerY
    /\ rawBufferX' = <<>> /\ rawBufferY' = <<>>
    /\ velocityX' = 0 /\ velocityY' = 0
    /\ lastTargetX' = Some(centerX) /\ lastTargetY' = Some(centerY)
    /\ lastTargetTime' = now
    /\ kalmanX' = [KalmanCentered(centerX) EXCEPT !.errorEstimate = kalmanX.errorEstimate]
    /\ kalmanY' = [KalmanCentered(centerY) EXCEPT !.errorEstimate = kalmanY.errorEstimate]
    /\ calibrateBtnDisabled' = FALSE
    /\ Event("calibrated", <<MoveTo(centerX, centerY)>>)
    /\ UNCHANGED lastMouseUpdate

\* lines 1651-1683: the countdown reached 0
CalibrationCompletes ==
    /\ calibrationNose' = currentNose
    /\ isCalibrated' = TRUE
    /\ smoothX' = Some(centerX) /\ smoothY' = Some(centerY)
    /\ outputX' = Some(centerX) /\ outputY' = Some(centerY)
    /\ lastSentX' = centerX /\ lastSentY' = centerY
    /\ rawBufferX' = <<>> /\ rawBufferY' = <<>>
    /\ velocityX' = 0 /\ velocityY' = 0
    /\ lastTargetX' = Some(centerX) /\ lastTargetY' = Some(centerY)
    /\ lastTargetTime' = now
    /\ kalmanX' = KalmanCentered(centerX) /\ kalmanY' = KalmanCentered(centerY)
    /\ calibrateBtnDisabled' = FALSE
    /\ Event("calibrated", <<MoveTo(centerX, centerY)>>)
    /\ UNCHANGED lastMouseUpdate

\* variant: the first tick already completes the countdown
CountdownEndsAtOnce(count) == FALSE

\* count--; if (count > 0), lines 1645-1646, for the count before the tick
CountdownContinues(count) == count - 1 > 0

RemoveAt(seq, i) == [j \in 1..(Len(seq) - 1) |-> IF j < i THEN seq[j] ELSE seq[j + 1]]

\* the setInterval callback of one countdown (lines 1644-1688)
CountdownTick ==
    \E i \in 1..Len(countdowns) :
        LET c == countdowns[i]
        IN  /\ IF CountdownContinues(c.count)
               THEN /\ countdowns' = [countdowns EXCEPT ![i].count = c.count - 1,
                                                        \* history: the ticks so far
                                                        ![i].ticks = c.ticks + 1]
                    /\ Event("other", <<>>)
                    /\ UNCHANGED <<calibVars, filterVars, calibrateBtnDisabled, calibOrigin,
                                   lastMoveTo, heldAtReference, pushed>>
               ELSE /\ countdowns' = RemoveAt(countdowns, i)
                    /\ CalibrationCompletes
                    /\ calibOrigin' = (IF c.stale THEN "stale" ELSE "fresh")
                    /\ lastMoveTo' = Some(now)
                    /\ heldAtReference' = TRUE
                    /\ pushed' = <<>>
            /\ UNCHANGED <<isRunning, currentNose, gestureVars, speechVars, socketVars,
                           ui, loopVars, now, scenario, frames, winkRun, prevMouthOpen,
                           lastDragCmd, faceSeen, lastPipelineSend, sendGap, clicks,
                           lastDragSent>>

\* startSpeaking, lines 1988-1990
startSpeaking ==
    /\ ~speaking
    /\ speaking' = TRUE
    /\ trackingPaused' = TRUE
    /\ Event("other", <<>>)
    /\ UNCHANGED <<isRunning, calibVars, currentNose, gestureVars, socketVars,
                   filterVars, uiVars, countdowns, loopVars, now, scenario, frames,
                   historyVars>>

\* finalizeSpeechStop, lines 2050-2072
finalizeSpeechStop ==
    /\ speaking
    /\ speaking' = FALSE
    /\ trackingPaused' = FALSE
    /\ Event("other", <<>>)
    /\ UNCHANGED <<isRunning, calibVars, currentNose, gestureVars, socketVars,
                   filterVars, uiVars, countdowns, loopVars, now, scenario, frames,
                   historyVars>>

\* connectWebSocket, lines 503-507: called by checkBackend when the page
\* loads and by the reconnect timer; a socket that is not OPEN is replaced,
\* and the handlers of the replaced socket stay installed
connectWebSocket ==
    /\ wsState = "NONE" \/ wsReconnectTimer
    /\ wsState # "OPEN"
    /\ wsState = "CONNECTING" => orphansConnecting + orphansOpen < MaxOrphans
    /\ wsState' = "CONNECTING"
    /\ orphansConnecting' = (IF wsState = "CONNECTING" THEN orphansConnecting + 1
                             ELSE orphansConnecting)
    /\ Event("other", <<>>)
    /\ UNCHANGED <<isRunning, calibVars, currentNose, gestureVars, speechVars,
                   backendConnected, wsReconnectTimer, orphansOpen, filterVars,
                   uiVars, countdowns, loopVars, now, scenario, frames, historyVars>>

\* websocket.onopen, lines 509-520
WsOnOpen ==
    /\ wsState = "CONNECTING"
    /\ wsState' = "OPEN"
    /\ backendConnected' = TRUE
    /\ wsReconnectTimer' = FALSE
    /\ Event("other", <<>>)
    /\ UNCHANGED <<isRunning, calibVars, currentNose, gestureVars, speechVars,
                   orphansConnecting, orphansOpen, filterVars, uiVars, countdowns,
                   loopVars, now, scenario, frames, historyVars>>

\* websocket.onclose, lines 522-531
WsOnClose ==
    /\ wsState \in {"CONNECTING", "OPEN"}
    /\ wsState' = "CLOSED"
    /\ backendConnected' = FALSE
    /\ wsReconnectTimer' = TRUE
    \* what was sent on this socket and not answered yet gets no answer: the
    \* backend replies on the socket that carried the request
    /\ searchRequests' = 0 /\ searchReplies' = <<>>
    /\ lastOp' = "other" /\ issued' = <<>> /\ sent' = <<>> /\ input' = Null
    /\ UNCHANGED <<isRunning, calibVars, currentNose, gestureVars, speechVars,
                   orphansConnecting, orphansOpen, filterVars, uiVars, countdowns,
                   loopVars, now, scenario, frames, historyVars, configVars,
                   serverVars, isSearching>>

\* onopen of a replaced socket, lines 509-520
OrphanOnOpen ==
    /\ orphansConnecting > 0
    /\ orphansConnecting' = orphansConnecting - 1
    /\ orphansOpen' = orphansOpen + 1
    /\ backendConnected' = TRUE
    /\ wsReconnectTimer' = FALSE
    /\ Event("other", <<>>)
    /\ UNCHANGED <<isRunning, calibVars, currentNose, gestureVars, speechVars,
                   wsState, filterVars, uiVars, countdowns, loopVars, now, scenario,
                   frames, historyVars>>

\* onclose of a replaced socket, lines 522-531
OrphanOnClose ==
    /\ orphansConnecting + orphansOpen > 0
    /\ \/ /\ orphansConnecting > 0
          /\ orphansConnecting' = orphansConnecting - 1
          /\ UNCHANGED orphansOpen
       \/ /\ orphansOpen > 0
          /\ orphansOpen' = orphansOpen - 1
          /\ UNCHANGED orphansConnecting
    /\ backendConnected' = FALSE
    /\ wsReconnectTimer' = TRUE
    /\ Event("other", <<>>)
    /\ UNCHANGED <<isRunning, calibVars, currentNose, gestureVars, speechVars,
                   wsState, filterVars, uiVars, countdowns, loopVars, now, scenario,
                   frames, historyVars>>

\* ------------------------------------------------------- image search
ImageSearch == [action |-> "image_search", x |-> 0, y |-> 0, button |-> "none"]

\* the text of the search field, trimmed
SearchQueries == {"", "cats"}

\* line 2144
SearchAllowed == ~isSearching

\* a step of the image search: no mouse command, no landmark results
SearchStep(op, msgs) ==
    /\ lastOp' = op /\ issued' = <<>> /\ sent' = msgs /\ input' = Null
    /\ UNCHANGED <<isRunning, calibVars, currentNose, gestureVars, speechVars,
                   filterVars, uiVars, countdowns, loopVars, now, scenario, frames,
                   historyVars, configVars, serverVars, socketVars>>

\* triggerImageSearch(), lines 2130-2173: the click on the search button or
\* Enter in the search field
triggerImageSearch ==
    \E query \in SearchQueries :
        LET sends == query # "" /\ wsState = "OPEN" /\ SearchAllowed
        IN  /\ isSearching' = (isSearching \/ sends)
            /\ searchRequests' = searchRequests + Bit(sends)
            /\ SearchStep("search", IF sends THEN <<ImageSearch>> ELSE <<>>)
            /\ UNCHANGED searchReplies

\* searchUnsplashImages(query, count, ws) of server.js, lines 771-838: every
\* path ends with one ws.send, of image_search_results or of
\* image_search_error
searchUnsplashImages ==
    /\ searchRequests > 0
    /\ searchRequests' = searchRequests - 1
    /\ \E type \in {"image_search_results", "image_search_error"} :
          searchReplies' = Append(searchReplies, type)
    /\ SearchStep("server", <<>>)
    /\ UNCHANGED isSearching

\* websocket.onmessage, lines 547-550, with handleImageSearchResults and
\* handleImageSearchError, lines 2178-2217
SearchReplyArrives ==
    /\ searchReplies # <<>>
    /\ searchReplies' = Tail(searchReplies)
    /\ isSearching' = FALSE
    /\ SearchStep("reply", <<>>)
    /\ UNCHANGED searchRequests

\* getScreenSize() / checkBackend(): the health response reports the screen
\* of the backend
ScreenSizes == {<<1920, 1080>>, <<1080, 1920>>, <<1366, 768>>}

getScreenSize ==
    /\ healthPending > 0
    /\ healthPending' = healthPending - 1
    /\ \E size \in ScreenSizes :
          /\ screenWidth' = size[1]
          /\ screenHeight' = size[2]
    /\ lastOp' = "other" /\ issued' = <<>> /\ sent' = <<>> /\ input' = Null
    /\ UNCHANGED <<isRunning, calibVars, currentNose, gestureVars, speechVars,
                   socketVars, filterVars, uiVars, countdowns, loopVars, now,
                   scenario, frames, historyVars, sensitivity, slides, serverVars,
                   imageVars>>

\* the 'input' listener of the sensitivity slider (README: 0.5 to 3.0)
Sensitivities == {5, 15, 30}

sensitivityInput ==
    /\ slides < MaxSlides
    /\ slides' = slides + 1
    /\ \E value \in Sensitivities : sensitivity' = value
    /\ lastOp' = "other" /\ issued' = <<>> /\ sent' = <<>> /\ input' = Null
    /\ UNCHANGED <<isRunning, calibVars, currentNose, gestureVars, speechVars,
                   socketVars, filterVars, uiVars, countdowns, loopVars, now,
                   scenario, frames, historyVars, screenWidth, screenHeight,
                   healthPending, serverVars, imageVars>>

\* ------------------------------------------- facecontrol-backend/server.js
\* A coordinate is Some(number) or NaN.  Message coordinates and queued
\* positions are in units of 1 / Scale pixel, currentPos in pixels.
NaN == Null

\* x === y on two coordinates
StrictEq(a, b) == a # NaN /\ b # NaN /\ a = b

\* Math.max(0, Math.min(limit - 1, Math.round(x))); NaN stays NaN
RoundClamp(c, limit) ==
    IF c = NaN THEN NaN ELSE Some(Max(0, Min(limit - 1, MathRound(Val(c)))))

\* currentPos.x + (msg.x || 0)
PlusDelta(pos, d) ==
    IF pos = NaN THEN NaN ELSE Some(Val(pos) * Scale + (IF d = NaN THEN 0 ELSE Val(d)))

Msg(action, x, y) == [action |-> action, x |-> x, y |-> y, text |-> ""]
TypeMsg(text) == [action |-> "type", x |-> NaN, y |-> NaN, text |-> text]
MoveMouse(x, y) == [fn |-> "moveMouse", x |-> x, y |-> y]
MouseClick == [fn |-> "mouseClick", x |-> NaN, y |-> NaN]
MouseToggle(down) == [fn |-> IF down THEN "mouseToggle down" ELSE "mouseToggle up",
                      x |-> NaN, y |-> NaN]
TypeString == [fn |-> "typeString", x |-> NaN, y |-> NaN]

\* the messages a client sends: positions on the screen, on the start
\* position, between two pixels and off the screen; a moveTo without
\* coordinates; deltas; a click; one message of every other action, 'type'
\* with and without text, and an action the switch does not know
OtherActions ==
    {"doubleclick", "mousedown", "mouseup", "analyze", "analyze_design",
     "improve_design", "image_search", "suggest_images", "scroll"}

ServerMessages ==
    {Msg("moveTo", Some(p[1]), Some(p[2])) :
        p \in {<<960 * Scale, 540 * Scale>>,
                <<960 * Scale + Scale \div 2, 540 * Scale + (Scale - 1) \div 2>>,
                <<-3 * Scale, 2000 * Scale>>, <<300 * Scale, 200 * Scale>>}}
    \cup {Msg("moveTo", NaN, NaN)}
    \cup {Msg("move", Some(d[1]), Some(d[2])) :
             d \in {<<10 * Scale, 0>>, <<-20 * Scale, 5 * Scale>>}}
    \cup {Msg("move", Some(10 * Scale), NaN)}
    \cup {Msg("click", NaN, NaN)}
    \cup {Msg(action, NaN, NaN) : action \in OtherActions}
    \cup {TypeMsg("hello"), TypeMsg("")}

\* messages received in a run
MaxMessages == 4

\* robot.moveMouse(x, y), lines 79-84: with numbers it moves the pointer; what
\* the native call does with NaN is not in this repository: it returns or it
\* throws, and the catch block swallows the exception
MoveMouseReturns(x, y) ==
    IF x # NaN /\ y # NaN THEN {TRUE} ELSE {TRUE, FALSE}

\* moveCursor(x, y) of server.js, lines 72-87
serverMoveCursor(x, y) ==
    LET cx == RoundClamp(x, screenSize[1])
        cy == RoundClamp(y, screenSize[2])
    IN  IF StrictEq(cx, currentPos.x) /\ StrictEq(cy, currentPos.y)
        THEN robotCalls' = <<>> /\ UNCHANGED currentPos
        ELSE /\ robotCalls' = <<MoveMouse(cx, cy)>>
             /\ \E returns \in MoveMouseReturns(cx, cy) :
                   currentPos' = (IF returns THEN [x |-> cx, y |-> cy] ELSE currentPos)

\* variant: a position queued while one is pending is dropped
queueMoveKeepsFirst(x, y) ==
    /\ pendingMove' = (IF pendingMove = Null THEN Some([x |-> x, y |-> y]) ELSE pendingMove)
    /\ moveTimer' = TRUE

\* queueMove(x, y), lines 119-129
queueMove(x, y) ==
    /\ pendingMove' = Some([x |-> x, y |-> y])
    /\ moveTimer' = TRUE

\* history: one more position queued
BatchAfterQueue ==
    [queued |-> (IF batch.executed THEN 1 ELSE batch.queued + 1), executed |-> FALSE]

\* mouseClick(action), lines 89-108, as the switch calls it: the robot call
ClickCalls(action) ==
    CASE action \in {"click", "doubleclick"} -> <<MouseClick>>
      [] action = "mousedown" -> <<MouseToggle(TRUE)>>
      [] action = "mouseup" -> <<MouseToggle(FALSE)>>
      [] OTHER -> <<>>

\* the switch on msg.action, lines 164-225: the handlers called for a message,
\* in order.  Every case ends with break except 'type' (lines 192-200), from
\* which control runs on into 'analyze'
Handlers(msg) ==
    CASE msg.action \in {"moveTo", "move"} -> <<"queueMove">>
      [] msg.action \in {"click", "mousedown", "mouseup"} -> <<"mouseClick">>
      [] msg.action = "doubleclick" -> <<"mouseClick", "setTimeout">>
      [] msg.action = "type" ->
           (IF msg.text # "" THEN <<"typeString">> ELSE <<>>) \o <<"analyzeScreen">>
      [] msg.action = "analyze" -> <<"analyzeScreen">>
      [] msg.action = "analyze_design" -> <<"analyzeFullDesign">>
      [] msg.action = "improve_design" -> <<"generateDesignImprovements">>
      [] msg.action = "image_search" -> <<"searchUnsplashImages">>
      [] msg.action = "suggest_images" -> <<"generateSmartImageSuggestions">>
      [] OTHER -> <<>>

\* a step of the server: the page is not involved
ServerStep(op) ==
    /\ lastOp' = op /\ issued' = <<>> /\ sent' = <<>> /\ input' = Null
    /\ UNCHANGED <<pageVars, scenario, screenSize>>

\* ws.on('message'), lines 160-229
WsMessage ==
    /\ received < MaxMessages
    /\ received' = received + 1
    /\ \E msg \in ServerMessages :
        /\ dispatched' = [action |-> msg.action, handlers |-> Handlers(msg)]
        /\ clickTimers' = clickTimers + (IF msg.action = "doubleclick" THEN 1 ELSE 0)
        /\ CASE msg.action = "moveTo" ->
                 /\ queueMove(msg.x, msg.y)
                 /\ lastQueued' = Some([x |-> msg.x, y |-> msg.y])
                 /\ batch' = BatchAfterQueue
                 /\ movesOnScreen' = FALSE
                 /\ UNCHANGED <<currentPos, moveSum>>
                 /\ robotCalls' = <<>>
            [] msg.action = "move" ->
                 LET x == PlusDelta(currentPos.x, msg.x)
                     y == PlusDelta(currentPos.y, msg.y)
                     sum == <<moveSum[1] + (IF msg.x = NaN THEN 0 ELSE Val(msg.x)),
                              moveSum[2] + (IF msg.y = NaN THEN 0 ELSE Val(msg.y))>>
                 IN  /\ queueMove(x, y)
                     /\ lastQueued' = Some([x |-> x, y |-> y])
                     /\ batch' = BatchAfterQueue
                     /\ moveSum' = sum
                     /\ movesOnScreen' =
                          (/\ movesOnScreen
                           /\ Val(StartPos.x) * Scale + sum[1] \in 0..((screenSize[1] - 1) * Scale)
                           /\ Val(StartPos.y) * Scale + sum[2] \in 0..((screenSize[2] - 1) * Scale))
                     /\ UNCHANGED currentPos
                     /\ robotCalls' = <<>>
            [] OTHER ->
                 \* 'click': mouseClick(msg.button || 'left'); 'doubleclick',
                 \* 'mousedown', 'mouseup': mouseClick; 'type':
                 \* robot.typeString(msg.text) if there is text; the other
                 \* actions call no robot function before they return
                 /\ robotCalls' = (IF msg.action = "type" /\ msg.text # ""
                                   THEN <<TypeString>> ELSE ClickCalls(msg.action))
                 /\ movesOnScreen' = FALSE
                 /\ UNCHANGED <<currentPos, pendingMove, moveTimer, lastQueued, moveSum,
                                batch>>
    /\ ServerStep("message")

\* the setInterval callback of queueMove (lines 123-127) when a position is
\* pending, with executePendingMove (lines 111-116); with none pending the
\* callback changes nothing
BatchTick ==
    /\ moveTimer
    /\ pendingMove # Null
    /\ serverMoveCursor(Val(pendingMove).x, Val(pendingMove).y)
    /\ pendingMove' = Null
    /\ ServerStep("tick")
    /\ batch' = [batch EXCEPT !.executed = TRUE]
    /\ dispatched' = NoDispatch
    /\ UNCHANGED <<moveTimer, received, lastQueued, moveSum, movesOnScreen, clickTimers>>

\* the setTimeout callback of 'doubleclick', line 181: mouseClick('left')
ClickTimeout ==
    /\ clickTimers > 0
    /\ clickTimers' = clickTimers - 1
    /\ robotCalls' = <<MouseClick>>
    /\ dispatched' = NoDispatch
    /\ ServerStep("timeout")
    /\ UNCHANGED <<currentPos, pendingMove, moveTimer, received, lastQueued, moveSum,
                   movesOnScreen, batch>>

\* ---- a session: the buttons, the countdowns and the frame loops
Next ==
    \/ FaceResults
    \/ ProcessFrame
    \/ StartClick
    \/ StartGranted
    \/ StartDenied
    \/ stopTracking
    \/ calibrate
    \/ CountdownTick

Init == Loaded /\ scenario = "session"

Spec == Init /\ [][Next]_vars

\* ---- the wink detector on its own family of frames
InitWink == Loaded /\ scenario = "wink"

NextWink ==
    \/ FaceResults
    \/ ProcessFrame
    \/ StartClick
    \/ StartGranted
    \/ stopTracking
    \/ startSpeaking
    \/ finalizeSpeechStop

SpecWink == InitWink /\ [][NextWink]_vars

\* ---- the drag state machine on its own family of frames
InitDrag == Loaded /\ scenario = "drag"

NextTrack ==
    \/ FaceResults
    \/ ProcessFrame
    \/ StartClick
    \/ StartGranted
    \/ stopTracking
    \/ calibrate
    \/ CountdownTick

SpecDrag == InitDrag /\ [][NextTrack]_vars

\* ---- the smoothing pipeline and the dispatch on its own family of frames
InitMove == Loaded /\ scenario = "move"

SpecMove == InitMove /\ [][NextTrack]_vars

\* ---- a face at rest, frames arriving steadily
InitSteady == Loaded /\ scenario = "steady"

SpecSteady == InitSteady /\ [][NextTrack]_vars

\* ---- a run long enough to fill the raw buffers
InitBuffer == Loaded /\ scenario = "buffer"

SpecBuffer == InitBuffer /\ [][NextTrack]_vars

\* ---- noses around the boundary of the dead zone
InitDeadZone == Loaded /\ scenario = "deadzone"

SpecDeadZone == InitDeadZone /\ [][NextTrack]_vars

\* ---- the raw target on screens and sensitivities that change
InitTarget == Loaded /\ scenario = "target"

NextTarget ==
    \/ FaceResults
    \/ ProcessFrame
    \/ StartClick
    \/ StartGranted
    \/ calibrate
    \/ CountdownTick
    \/ getScreenSize
    \/ sensitivityInput

SpecTarget == InitTarget /\ [][NextTarget]_vars

\* ---- tracking stopped and started again while frames are in flight
InitRestart == Loaded /\ scenario = "restart"

NextRestart ==
    \/ FaceResults
    \/ ProcessFrame
    \/ StartClick
    \/ StartGranted
    \/ StartDenied
    \/ stopTracking

SpecRestart == InitRestart /\ [][NextRestart]_vars

\* ---- calibration countdowns, the interval timer firing as long as it is set
InitCalibrate == Loaded /\ scenario = "calibrate"

SpecCalibrate == InitCalibrate /\ [][NextTrack]_vars /\ WF_vars(CountdownTick)

\* ---- a head that moves slowly enough for the adaptive factor to vary
InitAxes == Loaded /\ scenario = "axes"

SpecAxes == InitAxes /\ [][NextTrack]_vars

\* ---- a cursor driven against the edge of the screen
InitEdge == Loaded /\ scenario = "edge"

SpecEdge == InitEdge /\ [][NextTrack]_vars

\* ---- calibrations requested across a stop and a start
InitCountdowns == Loaded /\ scenario = "countdowns"

SpecCountdowns == InitCountdowns /\ [][NextTrack]_vars

\* ---- winks held over several frames, inside and past the cooldown
InitHeld == Loaded /\ scenario = "held"

SpecHeld == InitHeld /\ [][NextWink]_vars

\* ---- image searches under connects and disconnects; the backend answers
\* every request it has and the socket delivers every reply it carries
InitSearch == Loaded /\ scenario = "search"

NextSearch ==
    \/ triggerImageSearch
    \/ searchUnsplashImages
    \/ SearchReplyArrives
    \/ connectWebSocket
    \/ WsOnOpen
    \/ WsOnClose
    \/ OrphanOnOpen
    \/ OrphanOnClose
    \/ StartClick
    \/ StartGranted
    \/ StartDenied
    \/ stopTracking

SpecSearch ==
    /\ InitSearch /\ [][NextSearch]_vars
    /\ WF_vars(searchUnsplashImages) /\ WF_vars(SearchReplyArrives)

\* ---- the backend: messages and batch ticks, the interval timer firing as
\* long as it is set
ServerScreens == {<<1920, 1080>>, <<1366, 768>>}

InitBackend ==
    /\ PageLoaded /\ scenario = "backend"
    /\ \E size \in ServerScreens : ServerStarted(size)

NextBackend ==
    \/ WsMessage
    \/ BatchTick
    \/ ClickTimeout

SpecBackend == InitBackend /\ [][NextBackend]_vars /\ WF_vars(BatchTick)

\* ---- speech mode switched on and off while tracking, calibrated or not
InitSpeech == Loaded /\ scenario = "speech"

NextSpeech ==
    \/ FaceResults
    \/ ProcessFrame
    \/ StartClick
    \/ StartGranted
    \/ stopTracking
    \/ calibrate
    \/ CountdownTick
    \/ startSpeaking
    \/ finalizeSpeechStop

SpecSpeech == InitSpeech /\ [][NextSpeech]_vars

\* ---- the websocket sink under connects and disconnects
InitSink == Loaded /\ scenario = "sink"

NextSink ==
    \/ FaceResults
    \/ ProcessFrame
    \/ StartClick
    \/ StartGranted
    \/ calibrate
    \/ CountdownTick
    \/ connectWebSocket
    \/ WsOnOpen
    \/ WsOnClose
    \/ OrphanOnOpen
    \/ OrphanOnClose

SpecSink == InitSink /\ [][NextSink]_vars

\* ============================================================ properties
Count(cmds, a) == Cardinality({i \in 1..Len(cmds) : cmds[i].action = a})

\* the step hands landmark results to onFaceResults
FrameStep == input' # Null
\* ... results that carry a face, while speech has not paused tracking
FaceFrameStep == FrameStep /\ Val(input').face /\ ~Paused
\* ... and the session is calibrated: the frame runs the cursor pipeline
PipelineFrameStep == FaceFrameStep /\ isCalibrated /\ calibrationNose # Null

\* the smoothing state and the gesture state as they are when the page loads
FilterStateInitial ==
    /\ rawBufferX = <<>> /\ rawBufferY = <<>>
    /\ kalmanX = KalmanInitial /\ kalmanY = KalmanInitial
    /\ velocityX = 0 /\ velocityY = 0
    /\ lastTargetX = Null /\ lastTargetY = Null /\ lastTargetTime = 0
    /\ smoothX = Null /\ smoothY = Null /\ outputX = Null /\ outputY = Null

GestureStateInitial ==
    /\ leftEyeOpen /\ rightEyeOpen
    /\ lastLeftClick = 0 /\ lastRightClick = 0
    /\ ~isDragging

OneClickOnFirstFrame(run) ==
    (run.phase \in {1, 2} /\ run.ready) => (run.first = 1 /\ run.later = 0)

\* C1 Wink edge-triggering: a wink (one eye closed, EAR < 0.15, over
\* consecutive frames while the other eye is open, EAR > 0.2) that starts
\* from the open state of the eye, with the side's cooldown expired, emits
\* exactly one click of its side, on the frame that closes the eye, and none
\* on the later frames of the wink.
C1_WinkEdgeTriggering ==
    OneClickOnFirstFrame(winkRun.left) /\ OneClickOnFirstFrame(winkRun.right)

\* C2 Drag symmetry: on every frame that runs the cursor pipeline, exactly
\* one mouse-down is issued if the mouth openness crossed 15 upward since the
\* previous such frame and none otherwise, exactly one mouse-up if it crossed
\* downward and none otherwise; a mouse-down never follows a mouse-down and
\* a mouse-up only follows a mouse-down.
C2_DragSymmetry ==
    [][PipelineFrameStep =>
         LET open == Val(input').mouthOpen > MOUTH_THRESHOLD
         IN  /\ Count(issued', "mousedown") = Bit(~prevMouthOpen /\ open)
             /\ Count(issued', "mouseup") = Bit(prevMouthOpen /\ ~open)
             /\ Has(issued', "mousedown") => lastDragCmd # "down"
             /\ Has(issued', "mouseup") => lastDragCmd = "down"]_vars

\* a second mouse-down, issued after a completed drag
C2_Witness == Has(issued, "mousedown") /\ clickCount = 1 /\ lastDragCmd = "down"

\* C3 stop() resets all filter state and all gesture state: right after
\* stopTracking the smoothing state (with the Kalman noise parameters) and
\* the gesture state equal their values at page load.
C3_StopResetsEverything ==
    lastOp = "stop" => (FilterStateInitial /\ GestureStateInitial)

\* C4 After stop() the session stays uncalibrated until a calibrate()
\* invoked after that stop completes: a countdown that was running when
\* stop() was invoked never sets isCalibrated.
C4_NoStaleCalibration == isCalibrated => calibOrigin # "stale"

\* C5 When the countdown completes, the calibration reference is the current
\* nose position and the smoothing state is the centered baseline.
C5_CalibrationBaseline ==
    lastOp = "calibrated" =>
        /\ isCalibrated /\ calibrationNose = currentNose
        /\ kalmanX.estimate = Some(centerX) /\ kalmanY.estimate = Some(centerY)
        /\ rawBufferX = <<>> /\ rawBufferY = <<>>
        /\ velocityX = 0 /\ velocityY = 0
        /\ lastTargetX = Some(centerX) /\ lastTargetY = Some(centerY)
        /\ smoothX = Some(centerX) /\ smoothY = Some(centerY)
        /\ outputX = Some(centerX) /\ outputY = Some(centerY)

\* a recalibration after the pipeline has run on a nose away from the default
C5_Witness ==
    /\ lastOp = "calibrated" /\ lastPipelineSend # Null
    /\ currentNose # <<500, 500>> /\ lastMouseUpdate = now

\* C6 calibrate() with no face-bearing frame received yet is rejected: the
\* session is never calibrated while no face has ever been seen.
C6_NoCalibrationWithoutFace == isCalibrated => faceSeen

\* C7 While uncalibrated, a landmark frame leaves every filter variable
\* (buffers, Kalman state, velocity, lastTarget, smooth/output, lastSent,
\* lastMouseUpdate) unchanged and issues no move-to.
C7_UncalibratedFrameIsNoOp ==
    [][(FrameStep /\ (~isCalibrated \/ calibrationNose = Null)) =>
         (UNCHANGED filterVars /\ ~Has(issued', "moveTo"))]_vars

\* a face-bearing frame handled while uncalibrated, after an earlier
\* calibrated run has left its marks on the dispatch state
C7_Witness ==
    /\ lastOp = "frame" /\ input # Null /\ Val(input).face
    /\ ~isCalibrated /\ lastMouseUpdate > 0 /\ lastPipelineSend # Null

\* C8 A frame without a detected face changes nothing: filter state,
\* gesture state, currentNose and the calibration state are unchanged and no
\* command is issued.
C8_NoFaceFrameChangesNothing ==
    [][(FrameStep /\ ~Val(input').face) =>
         (/\ UNCHANGED <<filterVars, gestureVars, currentNose, calibVars>>
          /\ issued' = <<>>)]_vars

\* a frame without a face in the middle of a calibrated drag
C8_Witness ==
    /\ lastOp = "frame" /\ input # Null /\ ~Val(input).face
    /\ isCalibrated /\ isDragging /\ rawBufferX # <<>> /\ ~leftEyeOpen

\* C9 Output throttle: two move-to commands dispatched by the pipeline are
\* at least UPDATE_INTERVAL (8 ms) apart.
C9_OutputThrottle == sendGap # Null => Val(sendGap) >= UPDATE_INTERVAL

\* two pipeline dispatches exactly 8 ms apart
C9_Witness == sendGap = Some(UPDATE_INTERVAL)

\* the output position is at least jitterThreshold pixels away from the
\* last sent position
FarFromLastSent(ox, oy, sx, sy) ==
    LET dx == Abs(ox - sx)
        dy == Abs(oy - sy)
        limit == jitterThreshold * Scale
    IN  dx >= limit \/ dy >= limit \/ dx * dx + dy * dy >= limit * limit

\* C10 Jitter gating: a pipeline frame issues a move-to only if the output
\* position is at least 5 px from the last sent position or more than
\* 100 ms have elapsed; when neither holds it issues none and leaves
\* lastSentX/lastSentY unchanged.
C10_JitterGating ==
    [][PipelineFrameStep =>
         LET far == FarFromLastSent(Val(outputX'), Val(outputY'), lastSentX, lastSentY)
             elapsed == now' - lastMouseUpdate > FALLBACK_INTERVAL
         IN  /\ Has(issued', "moveTo") => (far \/ elapsed)
             /\ ~(far \/ elapsed) =>
                  (~Has(issued', "moveTo") /\ UNCHANGED <<lastSentX, lastSentY>>)]_vars

\* a frame that passed the throttle 8 ms after a dispatch and was held back
\* by the jitter filter
C10_Witness ==
    /\ lastOp = "frame" /\ input # Null /\ Val(input).face /\ isCalibrated
    /\ issued = <<>> /\ lastMouseUpdate = now
    /\ lastPipelineSend = Some(now - UPDATE_INTERVAL)


\* C11 The fallback interval is measured from the last send: a pipeline
\* frame that passes the 8 ms throttle more than 100 ms after the last
\* move-to issues a move-to, whatever its displacement.
C11_FallbackFromLastSend ==
    [][(/\ PipelineFrameStep
        /\ now' - lastMouseUpdate >= UPDATE_INTERVAL
        /\ lastMoveTo # Null
        /\ now' - Val(lastMoveTo) > FALLBACK_INTERVAL) =>
         Has(issued', "moveTo")]_vars


\* C12 While the sink is unavailable (backendConnected false, or the socket
\* missing or not OPEN) every command a handler issues is dropped: nothing
\* reaches websocket.send; and what a step sends is exactly what that step
\* issued, so nothing is queued or sent later.
C12_UnavailableSinkDrops ==
    [][/\ ~(backendConnected /\ wsState = "OPEN") => sent' = <<>>
       /\ sent' = <<>> \/ sent' = issued']_vars

\* commands dropped while the connected flag is set but the socket is not
\* OPEN
C12_Witness ==
    /\ issued # <<>> /\ sent = <<>> /\ backendConnected /\ wsState # "OPEN"
    /\ Has(issued, "moveTo") /\ Has(issued, "click") /\ Has(issued, "mousedown")


\* C13 Per-side wink cooldown: two consecutive left clicks are more than
\* winkCooldown (600 ms) apart, and so are two consecutive right clicks.
C13_PerSideCooldown ==
    /\ clicks.left.gap # Null => Val(clicks.left.gap) > winkCooldown
    /\ clicks.right.gap # Null => Val(clicks.right.gap) > winkCooldown

\* two left clicks 601 ms apart, with a right click between them
C13_Witness ==
    /\ clicks.left.gap = Some(winkCooldown + 1)
    /\ clicks.right.at # Null

\* a left click and a right click less than 600 ms apart
CloseLeftAndRightClick ==
    /\ clicks.left.at # Null /\ clicks.right.at # Null
    /\ Val(clicks.right.at) - Val(clicks.left.at) \in 0..(winkCooldown - 1)


\* C14 The eye-open flags are hysteresis-latched: after every frame each
\* flag is closed if the last EAR outside the band [0.15, 0.2] was below
\* 0.15 and open if it was above 0.2 (open before any frame); a frame inside
\* the band leaves the flag as it was.
C14_HysteresisLatched ==
    /\ leftEyeOpen = winkRun.left.open
    /\ rightEyeOpen = winkRun.right.open


\* C15 Wink-to-button mapping: a frame issues click(left) only if it shows
\* a left wink (left EAR < 0.15, right EAR > 0.2) and click(right) only if
\* it shows a right wink, at most one click in all; and a left (right) wink
\* frame whose eye was open on the frame before, with the side's cooldown
\* expired, does issue click(left) (click(right)).
C15_WinkToButton ==
    [][FaceFrameStep =>
         LET l == Val(input').ears[1]
             r == Val(input').ears[2]
             leftWink == l < winkThreshold /\ r > openThreshold
             rightWink == r < winkThreshold /\ l > openThreshold
         IN  /\ HasCmd(issued', Click("left")) => leftWink
             /\ HasCmd(issued', Click("right")) => rightWink
             /\ Count(issued', "click") <= 1
             /\ (leftWink /\ leftEyeOpen /\ now' - lastLeftClick > winkCooldown)
                  => HasCmd(issued', Click("left"))
             /\ (rightWink /\ rightEyeOpen /\ now' - lastRightClick > winkCooldown)
                  => HasCmd(issued', Click("right"))]_vars

\* a right wink that issued click(right) after a left wink had issued
\* click(left)
C15_Witness ==
    /\ input # Null /\ Val(input).ears = <<250, 100>>
    /\ issued = <<Click("right")>> /\ clicks.left.at # Null


AllEqual(buffer, v) == \A i \in 1..Len(buffer) : buffer[i] = v

\* C16 Calibration reset determinism: while every pipeline frame since the
\* calibration has had the nose exactly at the reference, the pipeline state
\* is the centered baseline (raw targets, Kalman estimates, last target,
\* smooth and output at screen center, velocities 0), the last sent position
\* is the center and every move-to issued is a move-to the center.
C16_HeldAtReferenceStaysCentered ==
    (isCalibrated /\ heldAtReference) =>
        /\ AllEqual(rawBufferX, centerX) /\ AllEqual(rawBufferY, centerY)
        /\ kalmanX.estimate = Some(centerX) /\ kalmanY.estimate = Some(centerY)
        /\ lastTargetX = Some(centerX) /\ lastTargetY = Some(centerY)
        /\ velocityX = 0 /\ velocityY = 0
        /\ smoothX = Some(centerX) /\ smoothY = Some(centerY)
        /\ outputX = Some(centerX) /\ outputY = Some(centerY)
        /\ lastSentX = centerX /\ lastSentY = centerY
        /\ \A i \in 1..Len(issued) :
             issued[i].action = "moveTo" => issued[i] = MoveTo(centerX, centerY)

\* two pipeline frames held at a reference away from the default nose,
\* the second one dispatching the fallback move-to
C16_Witness ==
    /\ isCalibrated /\ heldAtReference /\ lastOp = "frame"
    /\ calibrationNose = <<480, 510>> /\ Len(rawBufferX) = 2
    /\ velocityX = 0 /\ Has(issued, "moveTo") /\ sendGap = Some(FALLBACK_INTERVAL + 1)


\* the smoothing state right after a calibration at time t
BaselineAt(t) ==
    <<<<>>, <<>>,
      [estimate |-> Some(centerX), errorEstimate |-> 10000, errorMeasure |-> 1000, q |-> 100],
      [estimate |-> Some(centerY), errorEstimate |-> 10000, errorMeasure |-> 1000, q |-> 100],
      0, 0, Some(centerX), Some(centerY), t,
      Some(centerX), Some(centerY), Some(centerX), Some(centerY)>>

\* C17 Re-calibration is idempotent: a countdown that completes in a
\* Calibrated state leaves the reference at the current nose position and
\* the smoothing state (buffers, Kalman state, velocities, last target,
\* smooth and output) and the last sent position at the values a first
\* calibration gives, whatever they were before.
C17_RecalibrationIdempotent ==
    [][(isCalibrated /\ lastOp' = "calibrated") =>
         /\ isCalibrated' /\ calibrationNose' = currentNose
         /\ bufferVars' = BaselineAt(now')
         /\ lastSentX' = centerX /\ lastSentY' = centerY]_vars

\* a re-calibration after two pipeline dispatches
C17_Witness ==
    /\ lastOp = "calibrated" /\ sendGap # Null /\ frames >= 2
    /\ currentNose = <<480, 510>> /\ calibOrigin = "fresh"


\* the last min(Len(seq), n) elements of seq, in order
LastN(seq, n) ==
    LET k == Min(Len(seq), n)
    IN  [i \in 1..k |-> seq[Len(seq) - k + i]]

\* C18 Each raw buffer holds at most 8 values: the most recent min(n, 8)
\* raw targets pushed since the last reset (stop or calibration), in arrival
\* order.
C18_BufferIsBoundedFifo ==
    /\ Len(rawBufferX) <= RAW_BUFFER_SIZE /\ Len(rawBufferY) <= RAW_BUFFER_SIZE
    /\ rawBufferX = [i \in 1..Min(Len(pushed), RAW_BUFFER_SIZE) |->
                       LastN(pushed, RAW_BUFFER_SIZE)[i][1]]
    /\ rawBufferY = [i \in 1..Min(Len(pushed), RAW_BUFFER_SIZE) |->
                       LastN(pushed, RAW_BUFFER_SIZE)[i][2]]

\* ten raw targets pushed: the two oldest were evicted, and the oldest kept
\* differs from the oldest pushed
C18_Witness ==
    /\ Len(pushed) = RAW_BUFFER_SIZE + 2 /\ Len(rawBufferX) = RAW_BUFFER_SIZE
    /\ rawBufferX[1] # pushed[1][1] /\ rawBufferX[1] # rawBufferX[2]
    /\ rawBufferY[1] # pushed[2][2]


\* the k-th smallest value of a non-empty buffer, found by counting
KthSmallest(buffer, k) ==
    CHOOSE v \in {buffer[i] : i \in 1..Len(buffer)} :
        /\ Cardinality({i \in 1..Len(buffer) : buffer[i] < v}) < k
        /\ Cardinality({i \in 1..Len(buffer) : buffer[i] <= v}) >= k

TextbookMedian(buffer) ==
    LET n == Len(buffer)
    IN  IF n % 2 = 1
        THEN KthSmallest(buffer, (n + 1) \div 2)
        ELSE RDiv(KthSmallest(buffer, n \div 2) + KthSmallest(buffer, n \div 2 + 1), 2)

\* C19 getMedian returns the median of the buffer's contents for every
\* buffer of 1 to 8 values: the middle value in sorted order for an odd
\* length, the mean of the two middle values for an even length.
C19_GetMedianIsMedian ==
    /\ rawBufferX # <<>> => getMedian(rawBufferX) = TextbookMedian(rawBufferX)
    /\ rawBufferY # <<>> => getMedian(rawBufferY) = TextbookMedian(rawBufferY)

\* a full buffer that is not in sorted order and whose two middle values
\* differ
C19_Witness ==
    /\ Len(rawBufferX) = RAW_BUFFER_SIZE
    /\ \E i \in 1..(RAW_BUFFER_SIZE - 1) : rawBufferX[i] > rawBufferX[i + 1]
    /\ \E i \in 1..(RAW_BUFFER_SIZE - 1) : rawBufferX[i] < rawBufferX[i + 1]
    /\ KthSmallest(rawBufferX, 4) # KthSmallest(rawBufferX, 5)


Sign(x) == IF x > 0 THEN 1 ELSE IF x < 0 THEN -1 ELSE 0

\* the adjusted offset of (dx, dy) (thousandths) is (ax, ay) (units of
\* 1e-5): zero up to the radius, beyond it of the direction of (dx, dy) and
\* of magnitude |(dx, dy)| - deadZone, up to the rounding of the fixed point
DeadZoneLaw(dx, dy, ax, ay) ==
    IF dx * dx + dy * dy <= deadZone * deadZone
    THEN ax = 0 /\ ay = 0
    ELSE /\ Sign(ax) = Sign(dx) /\ Sign(ay) = Sign(dy)
         /\ Abs(ax * dy - ay * dx) <= Abs(dx) + Abs(dy)
         /\ Abs(ISqrt(ax * ax + ay * ay) - (ISqrt(10000 * (dx * dx + dy * dy)) - 100 * deadZone)) <= 2

\* C20 Dead-zone continuity: the offset of the nose from the reference is
\* adjusted to (0, 0) when its magnitude is at most the dead-zone radius
\* (exactly at the radius included), and to the same direction with magnitude
\* d - radius when its magnitude d is larger.
C20_DeadZoneContinuity ==
    (isCalibrated /\ calibrationNose # Null) =>
        LET dx == currentNose[1] - calibrationNose[1]
            dy == currentNose[2] - calibrationNose[2]
        IN  DeadZoneLaw(dx, dy, DeadZoneMultiplied(dx, dx, dy), DeadZoneMultiplied(dy, dx, dy))

\* a pipeline frame whose offset is exactly the radius, after a frame
\* outside the dead zone
C20_Witness ==
    /\ isCalibrated /\ lastOp = "frame" /\ calibrationNose = <<508, 500>>
    /\ currentNose = <<500, 500>>
    /\ Len(rawBufferX) = 2 /\ rawBufferX[1] # centerX
    /\ rawBufferX[2] = centerX /\ rawBufferY[2] = centerY

\* C21 The raw target a frame hands to the smoothing pipeline (the value
\* it appends to the raw buffers) lies in [0, screenWidth - 1] x
\* [0, screenHeight - 1], whatever the nose, the reference, the sensitivity
\* and the screen size.
C21_RawTargetOnScreen ==
    [][PipelineFrameStep =>
         /\ rawBufferX' # <<>> /\ rawBufferY' # <<>>
         /\ rawBufferX'[Len(rawBufferX')] \in 0..((screenWidth' - 1) * Scale)
         /\ rawBufferY'[Len(rawBufferY')] \in 0..((screenHeight' - 1) * Scale)]_vars

\* a frame whose unclamped target leaves the screen through the top right
\* corner, on a screen and a sensitivity other than the defaults
C21_Witness ==
    /\ lastOp = "frame" /\ isCalibrated /\ calibrationNose = <<500, 500>>
    /\ currentNose = <<100, 100>>
    /\ screenWidth = 1366 /\ sensitivity = 30
    /\ rawBufferX # <<>> /\ rawBufferX[Len(rawBufferX)] = (screenWidth - 1) * Scale
    /\ rawBufferY # <<>> /\ rawBufferY[Len(rawBufferY)] = 0

\* C22 Click counting: a step changes clickCount by the number of clicks it
\* fires (left and right) plus one if it completes a drag (Dragging to
\* Idle), and by nothing else; so the counter is the number of left clicks,
\* right clicks and drag completions of the run.
C22_ClickCounting ==
    [][clickCount' = clickCount + Count(issued', "click")
                       + Bit(isDragging /\ ~isDragging')]_vars

\* a left click and a drag start on one frame, a right click and the drag's end
\* on the next
C22_Witness ==
    /\ clickCount = 3 /\ lastOp = "frame" /\ ~isDragging
    /\ Has(issued, "mouseup") /\ HasCmd(issued, Click("right"))
    /\ clicks.left.at # Null

\* C23 No concurrent frame processing: at most one frame-processing loop is
\* live (one processFrame chain, either awaiting faceMesh.send or waiting
\* for its animation frame), so at most one frame is in the landmark source
\* at a time.
C23_SingleFrameLoop == loopsAtRaf + loopsInSend <= 1

\* C24 Calibration state machine: a countdown started by calibrate() always
\* terminates; it completes on its third tick, which clears its timer and
\* leaves the state Calibrated; and isCalibrated becomes true on no step
\* other than the completion of a countdown.
C24_CalibrationCountdown ==
    /\ [][(~isCalibrated /\ isCalibrated') =>
             (lastOp' = "calibrated" /\ Len(countdowns') = Len(countdowns) - 1)]_vars
    /\ [][lastOp' = "calibrated" =>
             /\ isCalibrated' /\ calibrationNose' = currentNose
             /\ \E i \in 1..Len(countdowns) :
                   /\ countdowns[i].ticks + 1 = 3
                   /\ countdowns' = RemoveAt(countdowns, i)]_vars
    /\ (countdowns # <<>>) ~> (countdowns = <<>> /\ lastOp = "calibrated" /\ isCalibrated)

\* a countdown started while Calibrated has completed, after frames that moved
\* the nose
C24_Witness ==
    /\ lastOp = "calibrated" /\ isCalibrated /\ countdowns = <<>>
    /\ calibrationNose = <<480, 510>> /\ frames >= 2

\* the Y raw targets a second run could feed on the same frame
AltTargetsY == {0, centerY, (screenHeight - 1) * Scale}

\* a filter state with the same X-axis part and another Y-axis part
OtherYState(st) ==
    [st EXCEPT !.rawBufferY = st.rawBufferX, !.kalmanY = st.kalmanX,
               !.velocityY = st.velocityX, !.lastTargetY = st.lastTargetX,
               !.smoothY = st.smoothX, !.outputY = st.outputX]

\* C25 (as stated) Axis independence: a run that feeds the same X raw
\* target at the same time with a different Y raw target produces the same
\* smoothX and outputX.
C25_AxisIndependence ==
    [][PipelineFrameStep =>
         \A rawY \in AltTargetsY :
            LET other == Pipeline(FilterState,
                                  rawTargetX(Val(input').nose, calibrationNose), rawY, now')
            IN  other.smoothX = Val(smoothX') /\ other.outputX = Val(outputX')]_vars

\* C25 (amended) The X-axis raw buffer, Kalman state and velocity of a frame
\* do not depend on the Y-axis state or raw target; smoothX and outputX
\* depend on the Y axis through the adaptive smoothing factor only (the factor
\* is computed from the velocity magnitude of both axes): they are the same
\* whenever that factor is the same.
C25_AxesMeetInAdaptiveFactor ==
    [][PipelineFrameStep =>
         \A st \in {FilterState, OtherYState(FilterState)}, rawY \in AltTargetsY :
            LET other == Pipeline(st, rawTargetX(Val(input').nose, calibrationNose),
                                  rawY, now')
            IN  /\ other.rawBufferX = rawBufferX'
                /\ other.kalmanX = kalmanX'
                /\ other.velocityX = velocityX'
                /\ calculateAdaptiveSmoothFactor(other.velocityX, other.velocityY)
                     = calculateAdaptiveSmoothFactor(velocityX', velocityY')
                   => (other.smoothX = Val(smoothX') /\ other.outputX = Val(outputX'))]_vars

\* a frame has moved both axes at a speed that leaves the adaptive factor
\* between its base and its maximum, with smoothX still behind the Kalman
\* estimate
C25_Witness ==
    /\ lastOp = "frame" /\ isCalibrated /\ smoothX # Null
    /\ velocityX # 0 /\ velocityY # 0
    /\ calculateAdaptiveSmoothFactor(velocityX, velocityY) > baseSmoothFactor
    /\ calculateAdaptiveSmoothFactor(velocityX, velocityY) < maxSmoothFactor
    /\ Val(smoothX) # Val(kalmanX.estimate)

\* C26 README gesture contract: a frame on which both eyes close at the same
\* time (both EAR below the closed threshold, both eyes open before), with
\* the right-click cooldown elapsed, produces a right click.
C26_BothEyesBlinkRightClicks ==
    [][(/\ FaceFrameStep
        /\ Val(input').ears[1] < winkThreshold /\ Val(input').ears[2] < winkThreshold
        /\ winkRun.left.open /\ winkRun.right.open
        /\ now' - lastRightClick > winkCooldown)
       => HasCmd(issued', Click("right"))]_vars

\* C27 Backend move action: once no move is pending, after 'move' messages
\* only whose running position stayed on the screen, the cursor is at the
\* start position plus the sum of all deltas.
C27_MovesAddUp ==
    (movesOnScreen /\ received > 0 /\ pendingMove = Null) =>
        /\ currentPos.x = Some(Val(StartPos.x) + moveSum[1] \div Scale)
        /\ currentPos.y = Some(Val(StartPos.y) + moveSum[2] \div Scale)

MoveMouseCalls(calls) == Cardinality({i \in 1..Len(calls) : calls[i].fn = "moveMouse"})

\* C28 Backend move batching: robot.moveMouse is called by batch ticks only
\* and at most once per tick; a tick executes the most recently queued
\* position (clamped and rounded; no call if that is the current position)
\* and leaves nothing pending, whatever was queued before it since the last
\* tick; and a pending position is always executed eventually.
C28_MoveBatching ==
    /\ [][/\ MoveMouseCalls(robotCalls') <= 1
          /\ MoveMouseCalls(robotCalls') = 1 => lastOp' = "tick"]_vars
    /\ [][lastOp' = "tick" =>
             LET q == Val(lastQueued)
                 x == RoundClamp(q.x, screenSize[1])
                 y == RoundClamp(q.y, screenSize[2])
             IN  /\ pendingMove # Null /\ pendingMove' = Null
                 /\ robotCalls' = (IF StrictEq(x, currentPos.x) /\ StrictEq(y, currentPos.y)
                                   THEN <<>> ELSE <<MoveMouse(x, y)>>)]_vars
    /\ (pendingMove # Null) ~> (pendingMove = Null)

\* a tick has executed the last of three positions queued since the tick
\* before it
C28_Witness ==
    /\ lastOp = "tick" /\ batch = [queued |-> 3, executed |-> TRUE]
    /\ MoveMouseCalls(robotCalls) = 1 /\ pendingMove = Null
    /\ currentPos # StartPos

OnScreen(x, y) ==
    /\ x # NaN /\ Val(x) \in 0..(screenSize[1] - 1)
    /\ y # NaN /\ Val(y) \in 0..(screenSize[2] - 1)

\* C30 Backend cursor position: currentPos always has integer coordinates
\* on the screen; robot.moveMouse is called with such coordinates only, and
\* never with the current position.
C30_CursorOnScreen ==
    /\ [](OnScreen(currentPos.x, currentPos.y))
    /\ [][\A i \in 1..Len(robotCalls') :
             robotCalls'[i].fn = "moveMouse" =>
                 /\ OnScreen(robotCalls'[i].x, robotCalls'[i].y)
                 /\ <<robotCalls'[i].x, robotCalls'[i].y>> # <<currentPos.x, currentPos.y>>]_vars

\* the handlers of an action
OwnHandlers(action) ==
    CASE action \in {"moveTo", "move"} -> {"queueMove"}
      [] action \in {"click", "mousedown", "mouseup"} -> {"mouseClick"}
      [] action = "doubleclick" -> {"mouseClick", "setTimeout"}
      [] action = "type" -> {"typeString"}
      [] action = "analyze" -> {"analyzeScreen"}
      [] action = "analyze_design" -> {"analyzeFullDesign"}
      [] action = "improve_design" -> {"generateDesignImprovements"}
      [] action = "image_search" -> {"searchUnsplashImages"}
      [] action = "suggest_images" -> {"generateSmartImageSuggestions"}
      [] OTHER -> {}

\* C31 Backend dispatch: a message runs the handler of its own action only;
\* a 'type' message types its text and starts no screen analysis.
C31_OneActionPerMessage ==
    \A i \in 1..Len(dispatched.handlers) :
        dispatched.handlers[i] \in OwnHandlers(dispatched.action)

\* C32 Connection flag: whenever the current websocket is OPEN,
\* backendConnected is true and the reconnect timer is cleared, under every
\* interleaving of the open and close events of the current and of replaced
\* sockets with reconnect ticks.
C32_OpenSocketIsConnected ==
    wsState = "OPEN" => (backendConnected /\ ~wsReconnectTimer)

\* C33 While tracking is stopped (from stop() until the next start(), and
\* before the first start) no step emits a command or changes gesture or
\* filter state: neither a landmark result that was in flight at the stop nor
\* a calibration countdown that was pending.
C33_StoppedIsQuiet ==
    [][(~isRunning /\ ~isRunning') =>
          (issued' = <<>> /\ UNCHANGED <<gestureVars, filterVars>>)]_vars

\* C34 Every move-to command the front end emits, from the pipeline or from
\* a calibration, carries integer coordinates inside
\* [0, screenWidth - 1] x [0, screenHeight - 1].
C34_MoveToOnScreen ==
    \A i \in 1..Len(issued) :
        issued[i].action = "moveTo" =>
            /\ issued[i].x % Scale = 0 /\ issued[i].y % Scale = 0
            /\ issued[i].x \in 0..((screenWidth - 1) * Scale)
            /\ issued[i].y \in 0..((screenHeight - 1) * Scale)

\* C35 The drag commands that reach the sink are well-formed whatever the
\* connectivity does between frames: a delivered mouse-up follows a delivered
\* mouse-down that has not been released, and a delivered mouse-down never
\* follows a delivered mouse-down.
C35_DeliveredDragsWellFormed ==
    [][/\ Has(sent', "mouseup") => lastDragSent = "down"
       /\ Has(sent', "mousedown") => lastDragSent # "down"]_vars

\* C36 No drag is left held by a stop: right after stop() the drag state is
\* Idle and every mouse-down emitted has been followed by a mouse-up.
C36_StopReleasesDrag ==
    lastOp = "stop" => (~isDragging /\ lastDragCmd # "down")

\* C37 Gestures and calibration: a face-bearing frame handled while
\* uncalibrated (speech not pausing the tracking) emits no mouse-down and no
\* mouse-up and leaves isDragging unchanged, whatever the mouth does; the wink
\* detector runs on it all the same: it stores both open flags and clicks on
\* a wink whose eye was open and whose cooldown has expired.
C37_DragNeedsCalibration ==
    [][(FaceFrameStep /\ ~isCalibrated) =>
         LET l == Val(input').ears[1]
             r == Val(input').ears[2]
         IN  /\ ~Has(issued', "mousedown") /\ ~Has(issued', "mouseup")
             /\ UNCHANGED isDragging
             /\ leftEyeOpen' = (l > openThreshold)
             /\ rightEyeOpen' = (r > openThreshold)
             /\ HasCmd(issued', Click("left")) <=>
                  (/\ l < winkThreshold /\ r > openThreshold /\ leftEyeOpen
                   /\ now' - lastLeftClick > winkCooldown)
             /\ HasCmd(issued', Click("right")) <=>
                  (/\ r < winkThreshold /\ l > openThreshold /\ rightEyeOpen
                   /\ now' - lastRightClick > winkCooldown)]_vars

\* before any calibration, a frame with the mouth open and the left eye
\* winking has clicked and has started no drag
C37_Witness ==
    /\ lastOp = "frame" /\ input = Some(Face(<<480, 510>>, <<100, 250>>, 20))
    /\ ~isCalibrated /\ calibOrigin = "none"
    /\ issued = <<Click("left")>> /\ ~isDragging /\ ~leftEyeOpen

\* C38 At most one calibration countdown is pending at any time, whatever
\* the sequence of calibrate, stop and start.
C38_OneCountdownPending == Len(countdowns) <= 1

\* C39 A click is emitted only on a frame on which the winking eye is
\* closed (EAR < 0.15), the other eye is open (EAR > 0.2) and the winking
\* eye's open flag, as the previous processed frame stored it, is true; a
\* processed frame stores EAR > 0.2 in each flag and no other step writes the
\* flags.  So the later frames of a wink never click: not when the wink is
\* held past the cooldown, and not when its first frame fell inside the
\* cooldown.
C39_ClickOnStoredOpenFlag ==
    /\ [][FaceFrameStep =>
             LET l == Val(input').ears[1]
                 r == Val(input').ears[2]
             IN  /\ HasCmd(issued', Click("left")) =>
                       (l < winkThreshold /\ r > openThreshold /\ leftEyeOpen)
                 /\ HasCmd(issued', Click("right")) =>
                       (r < winkThreshold /\ l > openThreshold /\ rightEyeOpen)
                 /\ leftEyeOpen' = (l > openThreshold)
                 /\ rightEyeOpen' = (r > openThreshold)]_vars
    /\ [][~FaceFrameStep => (~Has(issued', "click") /\ UNCHANGED <<leftEyeOpen, rightEyeOpen>>)]_vars
    /\ [](winkRun.left.later = 0 /\ winkRun.right.later = 0)

\* a left wink that began inside the cooldown of an earlier left click and
\* is still held after the cooldown has expired: it has not clicked
C39_Witness ==
    /\ lastOp = "frame" /\ input = Some(Face(<<500, 500>>, <<100, 250>>, 10))
    /\ winkRun.left = [phase |-> 2, ready |-> FALSE, first |-> 0, later |-> 0, open |-> FALSE]
    /\ now - lastLeftClick > winkCooldown /\ clickCount = 1 /\ issued = <<>>

\* C40 Image-search guard: at most one image search request is outstanding
\* at a time, a trigger while isSearching is true sends nothing, and after
\* every triggered search isSearching eventually returns to false, also when
\* the websocket closes before the reply arrives.
C40_SearchGuard ==
    /\ [](searchRequests + Len(searchReplies) <= 1)
    /\ [][isSearching => sent' = <<>>]_vars
    /\ isSearching ~> ~isSearching

\* C29 While speech mode is active (speaking or trackingPaused) a landmark
\* frame changes no filter state, no gesture state, no calibration and not
\* currentNose, and emits no command; speaking implies trackingPaused in
\* every state; and the step that ends speaking leaves both flags false.
C29_SpeechSkipsFrames ==
    /\ [][(FrameStep /\ (speaking \/ trackingPaused)) =>
             /\ issued' = <<>> /\ sent' = <<>>
             /\ UNCHANGED <<filterVars, gestureVars, calibVars, currentNose>>]_vars
    /\ [](speaking => trackingPaused)
    /\ [][(speaking /\ ~speaking') => ~trackingPaused']_vars

\* during speech, calibrated and with the sink of no concern, a frame with a
\* left wink, an open mouth and a turned head has been skipped
C29_Witness ==
    /\ lastOp = "frame" /\ speaking /\ trackingPaused /\ isCalibrated
    /\ input = Some(Face(<<480, 510>>, <<100, 250>>, 20))
    /\ issued = <<>> /\ currentNose = <<500, 500>> /\ leftEyeOpen /\ ~isDragging

====
